---- MODULE Spec2Model ----
(***************************************************************************)
(* A model of slimweb, a small HTTP/1.1 client and server library:         *)
(*   - the chunked transfer-encoding codec of stream.rs (ChunkedWriter,    *)
(*     ChunkedReader) and the body loops write_all_until and               *)
(*     read_to_end_until;                                                  *)
(*   - ClientRequest::send of client/request.rs with its deadline          *)
(*     handling and its redirect loop;                                     *)
(*   - Server::run of server/mod.rs with its Expect / 100-continue         *)
(*     negotiation.                                                        *)
(* Each specification of the module uses one group of variables and       *)
(* leaves the other groups untouched.                                      *)
(***************************************************************************)
EXTENDS Integers, Sequences, FiniteSets, TLC

VARIABLES
    \* ---- chunked codec (SpecChunk) ----
    kpc,        \* position of the codec exchange: "write", "feed", "read", "done"
    payload,    \* the body handed to write_all_until
    writer,     \* ChunkedWriter: [buffer, chunk_size]
    wire,       \* the bytes the writer has put on the transport
    reader,     \* ChunkedReader: [stream, buffer, consumed, remaining, eof]
    kbody,      \* the body collected by read_to_end_until
    kres,       \* result of the exchange: "pending", "ok" or an error name
    frame       \* the chunk frame a peer sent: [size, data, ending, tail]

VARIABLES
    \* ---- client (SpecClient) ----
    cphase,     \* "build" (builder calls), "send" (inside send()), "done", "hung"
    stack,      \* the send() calls in progress: the caller's request, and above
                \* it the OPTIONS request of the encoding check while it runs
    now,        \* the clock (Instant::now()), in milliseconds
    tls,        \* whether the build has the "tls" feature
    result,     \* what send() returned: "pending", "Ok" or the error
    returned,   \* the response send() returned: <<>> or <<response>>
    lastIo,     \* the socket call the last step made: "none", "connect", "read", "write"
    peerSent,   \* history: the peer has sent at least one byte to this send()
    nResp,      \* history: response heads received during this send()
    lead,       \* history: how many of them, from the first on, were 3xx with Location
    tailOK      \* history: every response after those was a 200

VARIABLES
    \* ---- server (SpecServer) ----
    spc,             \* position in Server::run: "config", "accept", "head", "expect",
                     \* "respond", "request", "dispatch", "stopped"
    expect_handlers, \* the registered expectation checks, in the order of the Vec
    handlers,        \* the resources a route handler is registered for
    conn,            \* the number of connections accepted so far
    info,            \* the head process_lines parsed on the current connection
    next_check,      \* the position of the loop over expect_handlers
    continue_100,    \* locals of run()
    continue_code,
    continue_msg,
    calls,           \* history: the checks invoked for the current request, in order
    slog,            \* history: what run() did on the current connection, in order
    swire,           \* history: the responses written to the current connection
    sxfer,           \* history: the heads and bodies transferred on the current
                     \* connection, in order: "rhead", "rbody", "whead", "wbody"
    sres             \* what run() returned: "running" or the error

VARIABLES
    \* ---- body reader (SpecBody) ----
    bpc,            \* position of read_to_end_until: "read" (in the loop), "done"
    incoming,       \* the bytes the peer has still to deliver on the stream
    streamed,       \* history: every byte the peer delivers on the stream, in order
    peerClosed,     \* the peer has closed the connection
    content_length, \* the budget: <<>> (None) or <<L>> (Some(L))
    rbody,          \* the Vec the loop extends
    cur_len,        \* local of read_to_end_until
    lastRead        \* history: what the last read returned (n), -1 before the first

VARIABLES
    \* ---- functions of the library applied to an argument ----
    ppc,        \* "build" (the argument is being built), "call", "done"
    pin,        \* the argument
    pout        \* the result

kvars == <<kpc, payload, writer, wire, reader, kbody, kres, frame>>

cvars == <<cphase, stack, now, tls, result, returned, lastIo, peerSent, nResp, lead, tailOK>>

svars == <<spc, expect_handlers, handlers, conn, info, next_check, continue_100,
           continue_code, continue_msg, calls, slog, swire, sxfer, sres>>

bvars == <<bpc, incoming, streamed, peerClosed, content_length, rbody, cur_len, lastRead>>

pvars == <<ppc, pin, pout>>

vars == <<kvars, bvars, pvars, cvars, svars>>

-----------------------------------------------------------------------------
(* Generic helpers *)

Min(a, b) == IF a <= b THEN a ELSE b

Take(s, n) == SubSeq(s, 1, Min(n, Len(s)))

Drop(s, n) == SubSeq(s, n + 1, Len(s))

\* All sequences over S of length at most n.
SeqsUpTo(S, n) == UNION {[1..k -> S] : k \in 0..n}

-----------------------------------------------------------------------------
(* Bytes *)

CR == 13
LF == 10
SEMI == 59
PLUS == 43
ZERO == 48

\* The largest number of payload bytes ChunkedReader buffers at once.
MaxFill == 65536

\* The cap read_chunk_size puts on a chunk-size line.
ChunkLineMax == 128

\* The size of the buffer read_to_end_until reads into.
BufSize == 1024

\* usize is 64 bits wide.
UsizeBits == 64

-----------------------------------------------------------------------------
(* Bounds of the codec exchange *)

MaxPayload == 3

MaxChunkSize == 3

\* Payload bytes: CR, LF and ';' are the bytes the framing itself uses.
PayloadBytes == {CR, LF, 97}

\* Lengths of the caller's buffer in a read: short ones split a chunk over
\* several reads, BufSize is what read_to_end_until passes.
ReadSizes == {1, 2, BufSize}

-----------------------------------------------------------------------------
(* Hexadecimal chunk sizes: format!("{:x}") and usize::from_str_radix(_, 16) *)

HexDigit(d) == IF d < 10 THEN ZERO + d ELSE 87 + d

RECURSIVE ToHex(_)
ToHex(n) == IF n < 16 THEN <<HexDigit(n)>>
            ELSE ToHex(n \div 16) \o <<HexDigit(n % 16)>>

HexVal(b) == IF b \in 48..57 THEN b - 48
             ELSE IF b \in 97..102 THEN b - 87
             ELSE IF b \in 65..70 THEN b - 55
             ELSE -1

RECURSIVE HexFold(_, _)
HexFold(s, acc) == IF s = <<>> THEN acc
                   ELSE HexFold(Tail(s), acc * 16 + HexVal(Head(s)))

RECURSIVE StripZeros(_)
StripZeros(s) == IF s # <<>> /\ Head(s) = ZERO THEN StripZeros(Tail(s)) ELSE s

\* usize::from_str_radix(s, 16): an optional '+', then at least one hex digit
\* of either case; -1 stands for Err (empty, bad digit, or a value of more
\* than UsizeBits bits, that is more than UsizeBits / 4 significant digits).
FromStrRadix16(s) ==
    LET digits == IF s # <<>> /\ Head(s) = PLUS THEN Tail(s) ELSE s
    IN  IF digits = <<>> \/ \E i \in 1..Len(digits) : HexVal(digits[i]) = -1
        THEN -1
        ELSE IF Len(StripZeros(digits)) > UsizeBits \div 4 THEN -1
        ELSE HexFold(StripZeros(digits), 0)

-----------------------------------------------------------------------------
(* ChunkedWriter *)

\* write_to_payload: "{:x}\r\n", the data, "\r\n".
WriteToPayload(data) == ToHex(Len(data)) \o <<CR, LF>> \o data \o <<CR, LF>>

NewChunkedWriter(size) == [buffer |-> <<>>, chunk_size |-> size]

\* The while loop of ChunkedWriter::write: one frame of chunk_size bytes per
\* round while that many are buffered.  Gives [buffer, out].
RECURSIVE WriteLoop(_, _, _)
WriteLoop(buffer, size, out) ==
    IF Len(buffer) >= size
    THEN WriteLoop(Drop(buffer, size), size, out \o WriteToPayload(Take(buffer, size)))
    ELSE [buffer |-> buffer, out |-> out]

\* ChunkedWriter::write(buf): [w |-> writer after, out |-> bytes emitted, n |-> Ok(n)].
ChunkedWriterWrite(w, buf) ==
    LET r == WriteLoop(w.buffer \o buf, w.chunk_size, <<>>)
    IN  [w |-> [w EXCEPT !.buffer = r.buffer], out |-> r.out, n |-> Len(buf)]

\* A flush that emits the remainder and keeps it buffered.
ChunkedWriterFlushKeep(w) ==
    IF w.buffer = <<>>
    THEN [w |-> w, out |-> <<>>]
    ELSE [w |-> w, out |-> WriteToPayload(w.buffer)]

\* ChunkedWriter::flush: the non-empty remainder as one frame.
ChunkedWriterFlush(w) ==
    IF w.buffer = <<>>
    THEN [w |-> w, out |-> <<>>]
    ELSE [w |-> [w EXCEPT !.buffer = <<>>], out |-> WriteToPayload(w.buffer)]

\* write_all_until over a chunked writer (no deadline): write until req is
\* empty, then flush.  ChunkedWriter::write takes the whole slice, so a
\* non-empty req is one write; an empty req is none.
WriteAllUntilChunked(w, req) ==
    LET wr == IF req = <<>> THEN [w |-> w, out |-> <<>>, n |-> 0]
              ELSE ChunkedWriterWrite(w, req)
        fl == ChunkedWriterFlush(wr.w)
    IN  [w |-> fl.w, out |-> wr.out \o fl.out]

-----------------------------------------------------------------------------
(* ChunkedReader *)

NewChunkedReader(stream) ==
    [stream |-> stream, buffer |-> <<>>, consumed |-> 0, remaining |-> 0, eof |-> FALSE]

\* Index of the first LF among the first max bytes of s, 0 when there is none.
FirstLF(s, max) ==
    LET idx == {i \in 1..Min(Len(s), max) : s[i] = LF}
    IN  IF idx = {} THEN 0 ELSE CHOOSE i \in idx : \A j \in idx : i <= j

\* read_line(stream, buf, max): take(max).read_until('\n'), then strip the
\* line ending.  [stream, buf, ok]; without a final LF the bytes read stay in
\* buf and the call fails (UnexpectedEof).
ReadLine(stream, max) ==
    LET i == FirstLF(stream, max)
    IN  IF i = 0
        THEN [stream |-> Drop(stream, max), buf |-> Take(stream, max), ok |-> FALSE]
        ELSE LET line == Take(stream, i)
                 cut  == IF i >= 2 /\ line[i - 1] = CR THEN i - 2 ELSE i - 1
             IN  [stream |-> Drop(stream, i), buf |-> Take(line, cut), ok |-> TRUE]

\* read_line_ending: one byte, and one more after a CR; true when the last
\* byte read is LF.  [stream, ok, err]: err when the stream ends first.
ReadLineEnding(stream) ==
    IF stream = <<>> THEN [stream |-> stream, ok |-> FALSE, err |-> TRUE]
    ELSE IF Head(stream) = CR
    THEN IF Len(stream) < 2
         THEN [stream |-> <<>>, ok |-> FALSE, err |-> TRUE]
         ELSE [stream |-> Drop(stream, 2), ok |-> stream[2] = LF, err |-> FALSE]
    ELSE [stream |-> Tail(stream), ok |-> Head(stream) = LF, err |-> FALSE]

\* The text of a chunk-size line that is parsed: what precedes the first ';'.
BeforeSemi(buf) ==
    LET idx == {i \in 1..Len(buf) : buf[i] = SEMI}
    IN  IF idx = {} THEN buf
        ELSE Take(buf, (CHOOSE i \in idx : \A j \in idx : i <= j) - 1)

\* read_chunk_size after its read_line gave ln: [r, size, err].
ChunkSizeOf(r, ln) ==
    LET r1 == [r EXCEPT !.stream = ln.stream, !.buffer = ln.buf]
    IN  IF ~ln.ok THEN [r |-> r1, size |-> 0, err |-> "UnexpectedEof"]
        ELSE IF ln.buf = <<>> THEN [r |-> r1, size |-> 0, err |-> "UnexpectedEof"]
        ELSE LET v == FromStrRadix16(BeforeSemi(ln.buf))
             IN  IF v = -1 THEN [r |-> r1, size |-> 0, err |-> "ChunkError"]
                 ELSE [r |-> r1, size |-> v, err |-> "none"]

\* ChunkedReader::read_chunk_size: [r, size, err].
ReadChunkSize(r) == ChunkSizeOf(r, ReadLine(r.stream, ChunkLineMax))

\* Vec::resize(n, 0): truncate, or pad with zero bytes.
Resize(buf, n) ==
    IF n <= Len(buf) THEN Take(buf, n)
    ELSE buf \o [i \in 1..(n - Len(buf)) |-> 0]

\* The part of fill_buf after the chunk size is known: resize the buffer,
\* read_exact into it, then the line ending when the chunk is complete.
FillChunk(r) ==
    LET n   == Min(r.remaining, MaxFill)
        buf == Resize(r.buffer, n)
    IN  IF Len(r.stream) < n
        THEN \* read_exact fails: what arrived overwrites the head of the buffer
             [r |-> [r EXCEPT !.buffer = r.stream \o Drop(buf, Len(r.stream)),
                              !.stream = <<>>],
              err |-> "UnexpectedEof"]
        ELSE LET r2 == [r EXCEPT !.buffer = Take(r.stream, n),
                                 !.stream = Drop(r.stream, n),
                                 !.consumed = 0,
                                 !.remaining = r.remaining - n]
             IN  IF r2.remaining # 0 THEN [r |-> r2, err |-> "none"]
                 ELSE LET le == ReadLineEnding(r2.stream)
                      IN  IF le.err
                          THEN [r |-> [r2 EXCEPT !.stream = le.stream],
                                err |-> "UnexpectedEof"]
                          ELSE IF ~le.ok
                          THEN [r |-> [r2 EXCEPT !.stream = le.stream,
                                                 !.buffer = <<>>,
                                                 !.eof = TRUE],
                                err |-> "Decode"]
                          ELSE [r |-> [r2 EXCEPT !.stream = le.stream], err |-> "none"]

\* fill_buf after read_chunk_size gave cs: its error is passed on; a size of
\* 0 sets eof.
FillSized(cs) ==
    IF cs.err # "none" THEN [r |-> cs.r, err |-> cs.err]
    ELSE FillChunk([cs.r EXCEPT !.remaining = cs.size,
                                !.eof = IF cs.size = 0 THEN TRUE ELSE cs.r.eof])

\* A fill_buf that goes to the transport whenever its buffer is used up,
\* whatever the end-of-stream flag says.
FillBufPastEnd(r) ==
    IF Len(r.buffer) = r.consumed
    THEN IF r.remaining = 0
         THEN FillSized(ReadChunkSize(r))
         ELSE FillChunk(r)
    ELSE [r |-> r, err |-> "none"]

\* ChunkedReader::fill_buf: [r, err]; the slice it returns is
\* r.buffer[consumed..].
FillBuf(r) ==
    IF Len(r.buffer) = r.consumed /\ ~(r.remaining = 0 /\ r.eof)
    THEN IF r.remaining = 0
         THEN FillSized(ReadChunkSize(r))
         ELSE FillChunk(r)
    ELSE [r |-> r, err |-> "none"]

\* ChunkedReader::read after its fill_buf gave f: copy what fits into the
\* len bytes of the caller's buffer, consume it.  [r, data, err].  The slice
\* buffer[consumed..] panics when a failed fill left consumed beyond the end
\* of the buffer.
ReadFilled(f, len) ==
    IF f.err # "none" THEN [r |-> f.r, data |-> <<>>, err |-> f.err]
    ELSE IF f.r.consumed > Len(f.r.buffer)
    THEN [r |-> f.r, data |-> <<>>, err |-> "panic"]
    ELSE LET avail == Drop(f.r.buffer, f.r.consumed)
             n     == Min(len, Len(avail))
         IN  [r |-> [f.r EXCEPT !.consumed = Min(f.r.consumed + n, Len(f.r.buffer))],
              data |-> Take(avail, n),
              err |-> "none"]

\* ChunkedReader::read(buf) with a buffer of len bytes.
ChunkedReaderRead(r, len) == ReadFilled(FillBuf(r), len)

-----------------------------------------------------------------------------
(* The parts of the state a specification does not use stay as they are.   *)

\* No frame from a peer.
NoFrame == [size |-> 0, data |-> <<>>, ending |-> <<>>, tail |-> <<>>]

ChunkIdle ==
    /\ kpc = "idle"
    /\ frame = NoFrame
    /\ payload = <<>>
    /\ writer = [buffer |-> <<>>, chunk_size |-> 1]
    /\ wire = <<>>
    /\ reader = [stream |-> <<>>, buffer |-> <<>>, consumed |-> 0, remaining |-> 0, eof |-> FALSE]
    /\ kbody = <<>>
    /\ kres = "pending"

BodyIdle ==
    /\ bpc = "idle"
    /\ incoming = <<>>
    /\ streamed = <<>>
    /\ peerClosed = FALSE
    /\ content_length = <<>>
    /\ rbody = <<>>
    /\ cur_len = 0
    /\ lastRead = -1

PureIdle ==
    /\ ppc = "idle"
    /\ pin = <<>>
    /\ pout = <<>>

ClientIdle ==
    /\ cphase = "idle"
    /\ stack = <<>>
    /\ now = 0
    /\ tls = FALSE
    /\ result = "pending"
    /\ returned = <<>>
    /\ lastIo = "none"
    /\ peerSent = FALSE
    /\ nResp = 0
    /\ lead = 0
    /\ tailOK = TRUE

NoInfo == [expect |-> FALSE, framing |-> "none", resource |-> "/"]

ServerIdle ==
    /\ spc = "idle"
    /\ expect_handlers = <<>>
    /\ handlers = {}
    /\ conn = 0
    /\ info = NoInfo
    /\ next_check = 1
    /\ continue_100 = FALSE
    /\ continue_code = 100
    /\ continue_msg = <<>>
    /\ calls = <<>>
    /\ slog = <<>>
    /\ swire = <<>>
    /\ sxfer = <<>>
    /\ sres = "running"

-----------------------------------------------------------------------------
(* The codec exchange: a body is written with write_all_until through a     *)
(* ChunkedWriter, the bytes on the wire are handed to a ChunkedReader and   *)
(* read back with the loop of read_to_end_until (no Content-Length).        *)

InitChunk ==
    /\ kpc = "write"
    /\ frame = NoFrame
    /\ payload \in SeqsUpTo(PayloadBytes, MaxPayload)
    /\ writer \in {NewChunkedWriter(s) : s \in 1..MaxChunkSize}
    /\ wire = <<>>
    /\ reader = NewChunkedReader(<<>>)
    /\ kbody = <<>>
    /\ kres = "pending"
    /\ BodyIdle
    /\ ClientIdle
    /\ ServerIdle
    /\ PureIdle

\* stream::write_all_until(&mut compressed, &body, ..) over Chunked::Is(Write).
KWriteAllUntil ==
    /\ kpc = "write"
    /\ LET w == WriteAllUntilChunked(writer, payload)
       IN  /\ writer' = w.w
           /\ wire' = wire \o w.out
    /\ kpc' = "feed"
    /\ UNCHANGED <<payload, reader, kbody, kres, frame, bvars, pvars, cvars, svars>>

\* The peer's side: the bytes written are the whole input of a ChunkedReader
\* (the writing side sends nothing more and the stream ends).
KFeed ==
    /\ kpc = "feed"
    /\ reader' = NewChunkedReader(wire)
    /\ kpc' = "read"
    /\ UNCHANGED <<payload, writer, wire, kbody, kres, frame, bvars, pvars, cvars, svars>>

\* One round of the loop of read_to_end_until with content_length = None:
\* read, extend the body, stop on a zero-byte read; an error ends the call.
KReadRound ==
    /\ kpc = "read"
    /\ \E len \in ReadSizes :
         \E rd \in {ChunkedReaderRead(reader, len)} :
             /\ reader' = rd.r
             /\ IF rd.err # "none"
                THEN /\ kres' = rd.err
                     /\ kpc' = "done"
                     /\ kbody' = kbody
                ELSE /\ kbody' = kbody \o rd.data
                     /\ IF rd.data = <<>>
                        THEN kres' = "ok" /\ kpc' = "done"
                        ELSE kres' = kres /\ kpc' = "read"
    /\ UNCHANGED <<payload, writer, wire, frame, bvars, pvars, cvars, svars>>

NextChunk == KWriteAllUntil \/ KFeed \/ KReadRound

SpecChunk == InitChunk /\ [][NextChunk]_vars

-----------------------------------------------------------------------------
(* Decoding what a peer sent: one chunk frame with a declared size, a run   *)
(* of payload bytes and a line ending, followed or not by the terminating  *)
(* frame, is the whole input of a ChunkedReader that is read to the end.    *)

\* The frame declares a size of 0..MaxDeclared.
MaxDeclared == 4

\* What follows the payload bytes of the frame.
LineEndings == {<<CR, LF>>, <<LF>>, <<>>}

\* The zero-size frame that ends a chunked body.
LastChunk == <<ZERO, CR, LF, CR, LF>>

\* What follows the frame: nothing more, or the terminating frame.
Tails == {<<>>, LastChunk}

Frames == [size : 0..MaxDeclared, data : SeqsUpTo(PayloadBytes, MaxPayload),
           ending : LineEndings, tail : Tails]

\* The bytes of a frame on the wire.
FrameBytes(fr) == ToHex(fr.size) \o <<CR, LF>> \o fr.data \o fr.ending \o fr.tail

InitDecode ==
    /\ kpc = "feed"
    /\ frame \in Frames
    /\ wire = FrameBytes(frame)
    /\ payload = <<>>
    /\ writer = [buffer |-> <<>>, chunk_size |-> 1]
    /\ reader = NewChunkedReader(<<>>)
    /\ kbody = <<>>
    /\ kres = "pending"
    /\ BodyIdle
    /\ ClientIdle
    /\ ServerIdle
    /\ PureIdle

NextDecode == KFeed \/ KReadRound

SpecDecode == InitDecode /\ [][NextDecode]_vars

-----------------------------------------------------------------------------
(* Reading on after the end: the peer sent a frame, the terminating frame   *)
(* and more bytes, and the caller keeps calling read after the body loop    *)
(* has ended.                                                               *)

\* The most bytes the peer sends after the terminating frame.
MaxExtra == 2

InitPastEnd ==
    /\ kpc = "feed"
    /\ frame \in {fr \in Frames : fr.tail = LastChunk}
    /\ \E extra \in SeqsUpTo(PayloadBytes, MaxExtra) : wire = FrameBytes(frame) \o extra
    /\ payload = <<>>
    /\ writer = [buffer |-> <<>>, chunk_size |-> 1]
    /\ reader = NewChunkedReader(<<>>)
    /\ kbody = <<>>
    /\ kres = "pending"
    /\ BodyIdle
    /\ ClientIdle
    /\ ServerIdle
    /\ PureIdle

\* A read after the body loop has ended; kres is what this read returned:
\* "ok" for Ok(0), "data" for Ok(n) with n > 0, or the error.
KReadAgain ==
    /\ kpc \in {"done", "past"}
    /\ \E len \in ReadSizes :
         \E rd \in {ChunkedReaderRead(reader, len)} :
             /\ reader' = rd.r
             /\ kbody' = kbody \o rd.data
             /\ kres' = IF rd.err # "none" THEN rd.err
                        ELSE IF rd.data = <<>> THEN "ok" ELSE "data"
    /\ kpc' = "past"
    /\ UNCHANGED <<payload, writer, wire, frame, bvars, pvars, cvars, svars>>

NextPastEnd == KFeed \/ KReadRound \/ KReadAgain

SpecPastEnd == InitPastEnd /\ [][NextPastEnd]_vars

-----------------------------------------------------------------------------
(* A ChunkedWriter in use: any sequence of write and flush calls.  payload  *)
(* holds every byte handed to write so far.                                 *)

\* The most bytes handed to the writer in all, and in one write.
MaxWritten == 4

MaxWrite == 3

InitWriter ==
    /\ kpc = "ready"
    /\ frame = NoFrame
    /\ payload = <<>>
    /\ writer \in {NewChunkedWriter(n) : n \in 1..MaxChunkSize}
    /\ wire = <<>>
    /\ reader = NewChunkedReader(<<>>)
    /\ kbody = <<>>
    /\ kres = "pending"
    /\ BodyIdle
    /\ ClientIdle
    /\ ServerIdle
    /\ PureIdle

\* ChunkedWriter::write(buf)
KWrite ==
    /\ kpc \in {"ready", "wrote", "flushed"}
    /\ \E buf \in SeqsUpTo(PayloadBytes, MaxWrite) :
         /\ Len(payload) + Len(buf) <= MaxWritten
         /\ payload' = payload \o buf
         /\ writer' = ChunkedWriterWrite(writer, buf).w
         /\ wire' = wire \o ChunkedWriterWrite(writer, buf).out
    /\ kpc' = "wrote"
    /\ UNCHANGED <<reader, kbody, kres, frame, bvars, pvars, cvars, svars>>

\* ChunkedWriter::flush()
KFlush ==
    /\ kpc \in {"ready", "wrote", "flushed"}
    /\ writer' = ChunkedWriterFlush(writer).w
    /\ wire' = wire \o ChunkedWriterFlush(writer).out
    /\ kpc' = "flushed"
    /\ UNCHANGED <<payload, reader, kbody, kres, frame, bvars, pvars, cvars, svars>>

NextWriter == KWrite \/ KFlush

SpecWriter == InitWriter /\ [][NextWriter]_vars

-----------------------------------------------------------------------------
(* One call of ChunkedWriter::write, round by round: the writer was made    *)
(* with the chunk size the application set (set_chunk_size takes any usize, *)
(* 0 included), the call has appended buf to the buffer and is in its while *)
(* loop.                                                                    *)

\* The transport holds this many bytes; a write to it waits for the peer to
\* take them when it is full.  wire is what the transport holds.
MaxWire == 30

InitWriteLoop ==
    /\ kpc = "loop"
    /\ frame = NoFrame
    /\ payload \in SeqsUpTo(PayloadBytes, MaxWrite)
    /\ \E n \in 0..MaxChunkSize : writer = [buffer |-> payload, chunk_size |-> n]
    /\ wire = <<>>
    /\ reader = NewChunkedReader(<<>>)
    /\ kbody = <<>>
    /\ kres = "pending"
    /\ BodyIdle
    /\ ClientIdle
    /\ ServerIdle
    /\ PureIdle

\* A round of the loop: `self.buffer.len() >= self.chunk_size` holds, the
\* first chunk_size bytes go out as a frame and the rest stays buffered.
KLoopRound ==
    /\ kpc = "loop"
    /\ Len(writer.buffer) >= writer.chunk_size
    /\ Len(wire) < MaxWire
    /\ wire' = wire \o WriteToPayload(Take(writer.buffer, writer.chunk_size))
    /\ writer' = [writer EXCEPT !.buffer = Drop(writer.buffer, writer.chunk_size)]
    /\ UNCHANGED <<kpc, payload, reader, kbody, kres, frame, bvars, pvars, cvars, svars>>

\* The transport is full: the peer takes what it holds, and the writes of
\* the next round find room.
KPeerTakes ==
    /\ kpc = "loop"
    /\ Len(wire) >= MaxWire
    /\ wire' = <<>>
    /\ UNCHANGED <<kpc, payload, writer, reader, kbody, kres, frame, bvars, pvars, cvars, svars>>

\* The loop condition fails: Ok(buf.len()).
KLoopExit ==
    /\ kpc = "loop"
    /\ Len(writer.buffer) < writer.chunk_size
    /\ kpc' = "returned"
    /\ kres' = "ok"
    /\ UNCHANGED <<payload, writer, wire, reader, kbody, frame, bvars, pvars, cvars, svars>>

NextWriteLoop == KLoopRound \/ KPeerTakes \/ KLoopExit

SpecWriteLoop == InitWriteLoop /\ [][NextWriteLoop]_vars

\* The call keeps running while it can.
FairWriteLoop == SpecWriteLoop /\ WF_vars(NextWriteLoop)

-----------------------------------------------------------------------------
(* The body loop over a plain stream: read_to_end_until collects what the   *)
(* peer delivers, with a Content-Length budget or without one, as           *)
(* ClientResponse::new and ServerRequest::new call it for a body that is    *)
(* neither chunked nor compressed.  No deadline is set.                     *)

\* The peer delivers at most this many bytes.
MaxStream == 3

\* The largest Content-Length.
MaxLength == 3

StreamBytes == {97, 98}

\* content_length: Option<usize>.
Budgets == {<<>>} \cup {<<l>> : l \in 0..MaxLength}

\* A loop that ends after its first read, whatever it returned.
LoopEndsAtOnce(length, cur, n) == TRUE

\* The two breaks of the loop, after cur_len has been advanced:
\* `if length == cur_len { break }` under Some(length), then `if n == 0 { break }`.
LoopEnds(length, cur, n) ==
    \/ (length # <<>> /\ length[1] = cur)
    \/ n = 0

\* `cur_len += n` happens only under Some(length).
Advance(length, cur, n) == IF length # <<>> THEN cur + n ELSE cur

InitBody ==
    /\ bpc = "read"
    /\ incoming \in SeqsUpTo(StreamBytes, MaxStream)
    /\ streamed = incoming
    /\ peerClosed = FALSE
    /\ content_length \in Budgets
    /\ rbody = <<>>
    /\ cur_len = 0
    /\ lastRead = -1
    /\ ChunkIdle
    /\ ClientIdle
    /\ ServerIdle
    /\ PureIdle

\* The peer closes the connection; what it sent before stays readable.
BPeerClose ==
    /\ bpc \in {"read", "done"}
    /\ ~peerClosed
    /\ peerClosed' = TRUE
    /\ UNCHANGED <<bpc, incoming, streamed, content_length, rbody, cur_len, lastRead,
                   kvars, pvars, cvars, svars>>

\* One round of the loop.  The read into the 1024-byte buffer returns some
\* of the bytes at hand (at least one), or 0 when there is none and the peer
\* has closed; with none at hand and the connection open it blocks.
BReadRound ==
    /\ bpc = "read"
    /\ \E n \in 0..Min(BufSize, Len(incoming)) :
         /\ n = 0 <=> (incoming = <<>> /\ peerClosed)
         /\ rbody' = rbody \o Take(incoming, n)
         /\ incoming' = Drop(incoming, n)
         /\ cur_len' = Advance(content_length, cur_len, n)
         /\ lastRead' = n
         /\ bpc' = IF LoopEnds(content_length, Advance(content_length, cur_len, n), n)
                   THEN "done" ELSE "read"
    /\ UNCHANGED <<streamed, peerClosed, content_length, kvars, pvars, cvars, svars>>

NextBody == BPeerClose \/ BReadRound

SpecBody == InitBody /\ [][NextBody]_vars

-----------------------------------------------------------------------------
(* Outbound messages: a ClientRequest or a ServerResponse is built with its *)
(* setters, then its head is generated and written, then its body.  A       *)
(* header is [k, v] with v = <<n>> for a numeric value and <<>> for a text. *)
(* The request has no credentials in its URL, and its compression flag is   *)
(* the one left by the encoding check when there was one.                   *)

\* The longest body.
MaxBody == 2

\* The largest Content-Length an application sets by hand.
MaxCustomLength == 1

Bodies == SeqsUpTo({97}, MaxBody)

\* The header names an application sets with set_header.
CustomKeys == {"Content-Length", "Transfer-Encoding", "X-Trace"}

CustomValues(k) ==
    IF k = "Content-Length" THEN {<<n>> : n \in 0..MaxCustomLength} ELSE {<<>>}

\* HashMap::insert
Put(h, k, v) == [x \in (DOMAIN h) \cup {k} |-> IF x = k THEN v ELSE h[x]]

\* `for (k, v) in &headers`: one line per entry, in the map's order.
RECURSIVE LinesOf(_, _)
LinesOf(h, keys) ==
    IF keys = {}
    THEN <<>>
    ELSE LET k == CHOOSE x \in keys : TRUE
         IN  <<[k |-> k, v |-> h[k]]>> \o LinesOf(h, keys \ {k})

\* ClientRequest::new / ServerResponse::new; accept is whether the request
\* the response answers has an Accept-Encoding naming gzip.
NewMessage(side, accept) ==
    [ side |-> side,
      headers |-> <<>>,
      body |-> <<>>,
      chunk_size |-> <<>>,
      compression |-> FALSE,
      check_target_encodings |-> FALSE,
      compression_level |-> <<>>,
      accept |-> accept ]

\* gen_head: the framing line of a request.
FramingLines(m) ==
    IF m.chunk_size = <<>>
    THEN IF m.body # <<>>
         THEN <<[k |-> "Content-Length", v |-> <<Len(m.body[1])>>]>>
         ELSE <<>>
    ELSE <<[k |-> "Transfer-Encoding", v |-> <<>>]>>

\* gen_head: the header lines of a request, after the request line.
GenHead(m) ==
    <<[k |-> "Host", v |-> <<>>]>>
    \o (IF "User-Agent" \notin DOMAIN m.headers
        THEN <<[k |-> "User-Agent", v |-> <<>>]>> ELSE <<>>)
    \o LinesOf(m.headers, DOMAIN m.headers)
    \o FramingLines(m)
    \o (IF m.compression THEN <<[k |-> "Content-Encoding", v |-> <<>>]>> ELSE <<>>)

\* process_request: the headers inserted for a response with a body.
ResponseHeaders(m) ==
    IF m.body = <<>>
    THEN m.headers
    ELSE LET framed == IF m.chunk_size # <<>>
                       THEN Put(m.headers, "Transfer-Encoding", <<>>)
                       ELSE Put(m.headers, "Content-Length", <<Len(m.body[1])>>)
         IN  IF m.accept /\ m.compression_level # <<>>
             THEN Put(framed, "Content-Encoding", <<>>)
             ELSE framed

\* The header lines of the head written for the message.
HeadLines(m) ==
    IF m.side = "client"
    THEN GenHead(m)
    ELSE LinesOf(ResponseHeaders(m), DOMAIN ResponseHeaders(m))

\* Whether the body goes through the gzip encoder (Compressed::Is(Gzip::En)).
Encodes(m) ==
    IF m.side = "client" THEN m.compression
    ELSE m.accept /\ m.compression_level # <<>>

\* write_all_until on the body: [wire, res].  Through the gzip encoder every
\* write hands an empty buffer to the stream and returns 0, which
\* write_all_until answers with UnexpectedEof; otherwise the bytes go out as
\* they are, or in chunk frames.
BodyWrite(m) ==
    IF m.body = <<>> \/ m.body[1] = <<>>
    THEN [wire |-> <<>>, res |-> "ok"]
    ELSE IF Encodes(m)
    THEN [wire |-> <<>>, res |-> "Io"]
    ELSE IF m.chunk_size # <<>>
    THEN [wire |-> WriteAllUntilChunked(NewChunkedWriter(m.chunk_size[1]), m.body[1]).out,
          res |-> "ok"]
    ELSE [wire |-> m.body[1], res |-> "ok"]

InitMessage ==
    /\ ppc = "build"
    /\ pin \in {NewMessage("client", FALSE)} \cup {NewMessage("server", a) : a \in BOOLEAN}
    /\ pout = <<>>
    /\ ChunkIdle
    /\ BodyIdle
    /\ ClientIdle
    /\ ServerIdle

Setter(m) ==
    /\ ppc = "build"
    /\ pin' = m
    /\ pin' # pin
    /\ UNCHANGED <<ppc, pout, kvars, bvars, cvars, svars>>

\* set_header
MSetHeader ==
    \E k \in CustomKeys : \E v \in CustomValues(k) :
        Setter([pin EXCEPT !.headers = Put(@, k, v)])

\* set_body
MSetBody ==
    \E b \in Bodies :
        Setter([pin EXCEPT !.headers = Put(@, "Content-Type", <<>>), !.body = <<b>>])

\* set_chunk_size: on a request it takes effect after check_target_encodings.
MSetChunkSize ==
    /\ pin.side = "client" => pin.check_target_encodings
    /\ \E n \in 1..MaxChunkSize : Setter([pin EXCEPT !.chunk_size = <<n>>])

\* ClientRequest::check_target_encodings
MCheckTargetEncodings ==
    /\ pin.side = "client"
    /\ Setter([pin EXCEPT !.check_target_encodings = TRUE])

\* ClientRequest::enable_compression
MEnableCompression ==
    /\ pin.side = "client"
    /\ Setter([pin EXCEPT !.compression = TRUE])

\* set_compression_level: on a request it takes effect after
\* enable_compression and check_target_encodings.
MSetCompressionLevel ==
    /\ pin.side = "client" => (pin.compression /\ pin.check_target_encodings)
    /\ Setter([pin EXCEPT !.compression_level = <<6>>])

\* The message goes out: head, then body.
MTransmit ==
    /\ ppc = "build"
    /\ ppc' = "done"
    /\ pout' = [head |-> HeadLines(pin), wire |-> BodyWrite(pin).wire, res |-> BodyWrite(pin).res]
    /\ UNCHANGED <<pin, kvars, bvars, cvars, svars>>

NextMessage ==
    \/ MSetHeader \/ MSetBody \/ MSetChunkSize \/ MCheckTargetEncodings
    \/ MEnableCompression \/ MSetCompressionLevel \/ MTransmit

SpecMessage == InitMessage /\ [][NextMessage]_vars

-----------------------------------------------------------------------------
(* The builder of a ClientRequest: any sequence of the calls that enable or *)
(* set the outbound encodings.  pin is the request, pout the calls made so  *)
(* far, each [call, arg].                                                   *)

\* The most builder calls on one request.
MaxCalls == 4

\* Compression levels and chunk sizes the application passes.
Levels == {6, 9}

BuilderChunkSizes == {1, 2}

\* ClientRequest::enable_compression
EnableCompression(m) == [m EXCEPT !.compression = TRUE]

\* ClientRequest::check_target_encodings
CheckTargetEncodings(m) == [m EXCEPT !.check_target_encodings = TRUE]

\* A set_compression_level that records the level whatever was called before.
SetCompressionLevelAlways(m, level) == [m EXCEPT !.compression_level = <<level>>]

\* ClientRequest::set_compression_level
SetCompressionLevel(m, level) ==
    IF m.compression /\ m.check_target_encodings
    THEN [m EXCEPT !.compression_level = <<level>>]
    ELSE m

\* ClientRequest::set_chunk_size
SetChunkSize(m, chunk_size) ==
    IF m.check_target_encodings
    THEN [m EXCEPT !.chunk_size = <<chunk_size>>]
    ELSE m

InitBuilder ==
    /\ ppc = "build"
    /\ pin = NewMessage("client", FALSE)
    /\ pout = <<>>
    /\ ChunkIdle
    /\ BodyIdle
    /\ ClientIdle
    /\ ServerIdle

\* One builder call: the request it returns, and the call noted.
BuilderCall(m, call, arg) ==
    /\ ppc = "build"
    /\ Len(pout) < MaxCalls
    /\ pin' = m
    /\ pout' = Append(pout, [call |-> call, arg |-> arg])
    /\ UNCHANGED <<ppc, kvars, bvars, cvars, svars>>

BEnableCompression ==
    /\ pin.side = "client"
    /\ BuilderCall(EnableCompression(pin), "enable_compression", 0)

BCheckTargetEncodings ==
    /\ pin.side = "client"
    /\ BuilderCall(CheckTargetEncodings(pin), "check_target_encodings", 0)

BSetCompressionLevel ==
    /\ pin.side = "client"
    /\ \E l \in Levels : BuilderCall(SetCompressionLevel(pin, l), "set_compression_level", l)

BSetChunkSize ==
    /\ pin.side = "client"
    /\ \E n \in BuilderChunkSizes : BuilderCall(SetChunkSize(pin, n), "set_chunk_size", n)

NextBuilder ==
    BEnableCompression \/ BCheckTargetEncodings \/ BSetCompressionLevel \/ BSetChunkSize

SpecBuilder == InitBuilder /\ [][NextBuilder]_vars

-----------------------------------------------------------------------------
(* URLs (client/request.rs).  A string is a sequence of one-character      *)
(* strings.                                                                 *)

StartsWith(s, p) == Len(s) >= Len(p) /\ SubSeq(s, 1, Len(p)) = p

\* str::find(c): the index of the first c in s, 0 for None.
Find(s, c) ==
    LET idx == {i \in 1..Len(s) : s[i] = c}
    IN  IF idx = {} THEN 0 ELSE CHOOSE i \in idx : \A j \in idx : i <= j

RECURSIVE TrimStart(_)
TrimStart(s) == IF s # <<>> /\ Head(s) = " " THEN TrimStart(Tail(s)) ELSE s

RECURSIVE TrimEnd(_)
TrimEnd(s) == IF s # <<>> /\ s[Len(s)] = " " THEN TrimEnd(Take(s, Len(s) - 1)) ELSE s

\* str::trim
Trim(s) == TrimEnd(TrimStart(s))

SchemeHttps == <<"h", "t", "t", "p", "s", ":", "/", "/">>
SchemeHttp == <<"h", "t", "t", "p", ":", "/", "/">>
Port443 == <<":", "4", "4", "3">>
Port80 == <<":", "8", "0">>

\* parse_url: [ok, https, host, resource]; ok is false for
\* InvalidCredentialsInURL.  (The credentials themselves play no part in the
\* redirect loop and are not kept.)
ParseUrl(url) ==
    LET https == StartsWith(url, SchemeHttps)
        u1    == IF https THEN Drop(url, 8)
                 ELSE IF StartsWith(url, SchemeHttp) THEN Drop(url, 7)
                 ELSE url
        at    == Find(u1, "@")
        bad   == at # 0 /\ Find(Take(u1, at - 1), ":") = 0
        u2    == IF at # 0 THEN Drop(u1, at) ELSE u1
        sl    == Find(u2, "/")
        host  == IF sl # 0 THEN Take(u2, sl - 1) ELSE u2
        res   == IF sl # 0 THEN Drop(u2, sl - 1) ELSE <<"/">>
        fin   == IF Find(host, ":") = 0
                 THEN host \o (IF https THEN Port443 ELSE Port80)
                 ELSE host
    IN  [ok |-> ~bad, https |-> https, host |-> fin, resource |-> res]

-----------------------------------------------------------------------------
(* Bounds and inputs of the client *)

\* read_until and write_until refresh the socket timeout when this many
\* milliseconds have passed since the last refresh.
RefreshMs == 250

\* The clock moves in steps of TickMs, the shortest time after which
\* read_until and write_until refresh, and stops after MaxTicks steps.
MaxTicks == 6

TickMs == RefreshMs

MaxTime == MaxTicks * TickMs

\* A blocking socket call returns after at most this many ticks.
MaxDelayTicks == 1

\* set_max_redirects is called with 0..MaxRedirectsArg.
MaxRedirectsArg == 1

\* set_deadline is called with these numbers of seconds.
DeadlineSecs == {1}

\* A request body is written in at most this many write calls, and a
\* response body read in at most this many reads that return data.
MaxBodyWrites == 1

MaxBodyReads == 1

\* The peer answers at most this many requests of one send().
MaxResponses == 7

\* ClientRequest::new sets max_redirects to this.
DefaultMaxRedirects == 5

\* The bounds of the redirect range in send().
RedirectLow == 300

RedirectHigh == 308

OrigUrls == { <<"h", "t", "t", "p", ":", "/", "/", "h", "/", "r">>,
              <<"h", "t", "t", "p", "s", ":", "/", "/", "h", "/", "r">> }

\* Status codes the peer answers with: both ends of the redirect range, a
\* code inside it and the codes next to it.
RespCodes == {200, 299, 300, 305, 308, 309}

\* Values of a Location header.
LocVals == { <<" ", "/", "a", " ">> }

\* Header maps of a response head (keys are case-sensitive, as received).
HeaderMaps == {<<>>}
              \cup {[k \in {"Location"} |-> v] : v \in LocVals}
              \cup {[k \in {"location"} |-> v] : v \in LocVals}

Responses == [code : RespCodes, headers : HeaderMaps]

-----------------------------------------------------------------------------
(* Options: None is <<>>, Some(x) is <<x>>; a deadline Some((line, reset))  *)
(* is <<line, reset>>.                                                      *)

IsSome(o) == o # <<>>

\* ClientRequest::new
NewClientRequest(method, url) ==
    [ pc |-> "connect",
      method |-> method,
      \* history: the method the request was constructed with
      requested |-> method,
      url |-> [https |-> url.https, host |-> url.host, resource |-> url.resource],
      \* the names of the headers set so far
      headers |-> {},
      body |-> FALSE,
      chunk_size |-> <<>>,
      compression_level |-> <<>>,
      max_redirects |-> DefaultMaxRedirects,
      redirects |-> <<>>,
      compression |-> FALSE,
      check_target_encodings |-> FALSE,
      deadline |-> <<>>,
      \* the connection of the current hop: its write and read timeouts
      wt |-> <<>>,
      rt |-> <<>>,
      \* positions in the body loops
      wleft |-> 0,
      rcount |-> 0,
      \* the head ClientResponse::new parsed
      resp |-> <<>>,
      \* history: what has been transferred on the connection of the current
      \* hop, in order: "whead", "wbody", "rhead", "rbody"
      xfer |-> <<>> ]

Top == stack[Len(stack)]

\* A transfer log with an event added, runs of the same event recorded once.
Note(log, ev) == IF log # <<>> /\ log[Len(log)] = ev THEN log ELSE Append(log, ev)

Expiry(f) == IF f.deadline = <<>> THEN <<>> ELSE <<f.deadline[1]>>

-----------------------------------------------------------------------------
(* Deadlines (stream.rs, client/request.rs) *)

\* A refresh test that misses the refresh at exactly RefreshMs.
RefreshDueStrict(reset, t) == t - reset > RefreshMs

\* Whether read_until / write_until take the refresh branch.
RefreshDue(reset, t) == t - reset >= RefreshMs

\* Whether the deadline has passed at the check.
Expired(line, t) == line <= t

\* A refresh that moves the expiry along with reset (a sliding window).
RefreshedSliding(deadline, t) == <<t + (deadline[1] - deadline[2]), t>>

\* The deadline after a refresh at time t: the expiry stays, reset moves.
Refreshed(deadline, t) == <<deadline[1], t>>

\* The first part of read_until and of write_until, at time t, with the
\* socket's timeout for that direction: [timedOut, deadline, timeout].
CheckDeadline(deadline, timeout, t) ==
    IF deadline = <<>>
    THEN [timedOut |-> FALSE, deadline |-> deadline, timeout |-> timeout]
    ELSE IF RefreshDue(deadline[2], t)
         THEN IF Expired(deadline[1], t)
              THEN [timedOut |-> TRUE, deadline |-> deadline, timeout |-> timeout]
              ELSE [timedOut |-> FALSE, deadline |-> Refreshed(deadline, t),
                    timeout |-> <<deadline[1] - t>>]
         ELSE [timedOut |-> FALSE, deadline |-> deadline, timeout |-> timeout]

\* `line - now` on Instants, handed to connect_timeout or set_write_timeout:
\* the results when it cannot give a positive duration.  An older toolchain
\* panics when now is later than line, a newer one gives zero, and a zero
\* timeout is refused as an invalid input.
BadDuration(line, t) ==
    IF line < t THEN {"Io", "Panic"} ELSE IF line = t THEN {"Io"} ELSE {}

\* How long a blocking socket call may take: without a deadline nothing
\* reads the clock, so the clock is left alone.
Delays(f) == IF f.deadline = <<>> THEN {0}
             ELSE {k * TickMs : k \in 0..MaxDelayTicks}

\* ClientResponse::new reads a body for these codes.
ReadsBody(code) == code <= 300 \/ code >= 308

\* A redirect range that leaves out its upper end.
IsRedirectExclusive(code) == code >= RedirectLow /\ code < RedirectHigh

\* The test on the status code in send().
IsRedirect(code) == code >= RedirectLow /\ code <= RedirectHigh

\* resp.info.headers.get("Location"): the key is matched as it is written.
GetLocation(headers) == IF "Location" \in DOMAIN headers THEN <<headers["Location"]>> ELSE <<>>

\* A redirect handling that looks for the Location header before it compares
\* the hop count with the maximum.
\* A redirect that re-issues the request with the method it had.
RedirectMethodKeep(method) == method

\* The method of the re-issued request: `match self.method.as_str()`.
RedirectMethod(method) ==
    IF method \in {"GET", "HEAD"} THEN method ELSE "GET"

RedirectDecisionLocationFirst(f, resp) ==
    IF ~(resp.code >= RedirectLow /\ resp.code <= RedirectHigh)
    THEN [kind |-> "Ok", f |-> f]
    ELSE IF "Location" \notin DOMAIN resp.headers
    THEN [kind |-> "NoLocationHeader", f |-> f]
    ELSE IF Len(f.redirects) = f.max_redirects
    THEN [kind |-> "MaxRedirectsHit", f |-> f]
    ELSE LET url == ParseUrl(f.url.host \o Trim(resp.headers["Location"]))
         IN  [kind |-> "Redirect",
              f |-> [f EXCEPT
                       !.redirects = Append(f.redirects,
                           <<f.url.https, f.url.host, f.url.resource>>),
                       !.method = RedirectMethod(f.method),
                       !.url = [https |-> url.https, host |-> url.host,
                                resource |-> url.resource],
                       !.pc = "connect"]]

\* A redirect handling that drops the body and its Content-Type when it
\* turns the method into GET.
RedirectDecisionDropBody(f, resp) ==
    IF IsRedirect(resp.code)
    THEN IF Len(f.redirects) = f.max_redirects
         THEN [kind |-> "MaxRedirectsHit", f |-> f]
         ELSE IF IsSome(GetLocation(resp.headers))
         THEN LET url == ParseUrl(f.url.host \o Trim(GetLocation(resp.headers)[1]))
              IN  IF ~url.ok
                  THEN [kind |-> "InvalidCredentialsInURL", f |-> f]
                  ELSE [kind |-> "Redirect",
                        f |-> [f EXCEPT
                                 !.redirects = Append(f.redirects,
                                     <<f.url.https, f.url.host, f.url.resource>>),
                                 !.method = RedirectMethod(f.method),
                                 !.body = f.body /\ RedirectMethod(f.method) = f.method,
                                 !.headers = IF RedirectMethod(f.method) = f.method
                                             THEN f.headers
                                             ELSE f.headers \ {"Content-Type"},
                                 !.url = [https |-> url.https, host |-> url.host,
                                          resource |-> url.resource],
                                 !.pc = "connect"]]
         ELSE [kind |-> "NoLocationHeader", f |-> f]
    ELSE [kind |-> "Ok", f |-> f]

\* The redirect handling at the end of send(), for request f and the
\* response resp: [kind, f].  kind "Redirect" is the recursive self.send().
RedirectDecision(f, resp) ==
    IF IsRedirect(resp.code)
    THEN IF Len(f.redirects) = f.max_redirects
         THEN [kind |-> "MaxRedirectsHit", f |-> f]
         ELSE IF IsSome(GetLocation(resp.headers))
         THEN LET url == ParseUrl(f.url.host \o Trim(GetLocation(resp.headers)[1]))
              IN  IF ~url.ok
                  THEN [kind |-> "InvalidCredentialsInURL", f |-> f]
                  ELSE [kind |-> "Redirect",
                        f |-> [f EXCEPT
                                 !.redirects = Append(f.redirects,
                                     <<f.url.https, f.url.host, f.url.resource>>),
                                 !.method = RedirectMethod(f.method),
                                 !.url = [https |-> url.https, host |-> url.host,
                                          resource |-> url.resource],
                                 !.pc = "connect"]]
         ELSE [kind |-> "NoLocationHeader", f |-> f]
    ELSE [kind |-> "Ok", f |-> f]

\* Whether an Accept-Encoding value (its comma-separated tokens, trimmed and
\* lower-cased) names gzip.
AcceptsGzip(tokens) == "gzip" \in tokens

\* The top-most send() returns: kind is "Ok" (with the response resp) or the
\* error.  The caller's send() returns to the user.  The encoding check's
\* send() returns into the caller's send(): an error is passed on by `?`, a
\* response updates `compression` and the caller goes on to write its head.
Return(f, kind, resp) ==
    IF Len(stack) = 1
    THEN /\ stack' = <<[f EXCEPT !.pc = "done"]>>
         /\ cphase' = "done"
         /\ result' = kind
         /\ returned' = IF kind = "Ok" THEN <<resp>> ELSE <<>>
    ELSE IF kind = "Ok"
    THEN /\ stack' = <<[stack[1] EXCEPT
                          !.pc = "head",
                          !.compression =
                              IF "Accept-Encoding" \in DOMAIN resp.headers
                              THEN AcceptsGzip(resp.headers["Accept-Encoding"])
                              ELSE @]>>
         /\ UNCHANGED <<cphase, result, returned>>
    ELSE /\ stack' = <<[stack[1] EXCEPT !.pc = "done"]>>
         /\ cphase' = "done"
         /\ result' = kind
         /\ returned' = <<>>

\* The top-most send() goes on as f.
Continue(f) ==
    /\ stack' = [stack EXCEPT ![Len(stack)] = f]
    /\ UNCHANGED <<cphase, result, returned>>

\* A blocking socket call that never returns: no timeout is set on the
\* socket for that direction and the peer does nothing.
Hang ==
    /\ cphase' = "hung"
    /\ UNCHANGED <<stack, now, result, returned, peerSent, nResp, lead, tailOK>>

-----------------------------------------------------------------------------
(* read_until applied to one outcome of the read on the transport           *)

\* The most bytes a read returns.
MaxRead == 2

\* std::io::ErrorKind of a failed read.
ErrorKinds == {"ConnectionAborted", "ConnectionReset", "BrokenPipe",
               "TimedOut", "WouldBlock", "UnexpectedEof"}

\* The error a std::io::Error wraps (get_ref): none, one whose description
\* names the CloseNotify alert, or another one.
InnerErrors == {"none", "CloseNotify", "other"}

\* What stream.read(buf) returns: Ok(n) or Err(e).
ReadOutcomes ==
    {[ok |-> TRUE, n |-> n, kind |-> "none", inner |-> "none"] : n \in 0..MaxRead}
    \cup [ok : {FALSE}, n : {0}, kind : ErrorKinds, inner : InnerErrors]

\* The deadlines and clock readings of a call.
CallTimes == {0, RefreshMs, 2 * RefreshMs}

CallDeadlines == {<<>>} \cup {<<l, r>> : l \in {RefreshMs, 2 * RefreshMs}, r \in {0, RefreshMs}}

\* A test that takes every aborted or reset connection for a close.
IsCloseNotifyAnyReset(e) == e.kind \in {"ConnectionAborted", "ConnectionReset"}

\* is_close_notify
IsCloseNotify(e) == e.kind = "ConnectionAborted" /\ e.inner = "CloseNotify"

\* read_until: [err, kind, n], err "none" for Ok(n) and "Io" for Error::Io.
ReadUntil(read, deadline, t) ==
    IF CheckDeadline(deadline, <<>>, t).timedOut
    THEN [err |-> "Io", kind |-> "TimedOut", n |-> 0]
    ELSE IF read.ok
    THEN [err |-> "none", kind |-> "none", n |-> read.n]
    ELSE IF IsCloseNotify(read)
    THEN [err |-> "none", kind |-> "none", n |-> 0]
    ELSE [err |-> "Io", kind |-> read.kind, n |-> 0]

InitReadUntil ==
    /\ ppc = "call"
    /\ pin \in [read : ReadOutcomes, deadline : CallDeadlines, now : CallTimes]
    /\ pout = <<>>
    /\ ChunkIdle
    /\ BodyIdle
    /\ ClientIdle
    /\ ServerIdle

PReadUntil ==
    /\ ppc = "call"
    /\ ppc' = "done"
    /\ pout' = ReadUntil(pin.read, pin.deadline, pin.now)
    /\ UNCHANGED <<pin, kvars, bvars, cvars, svars>>

NextReadUntil == PReadUntil

SpecReadUntil == InitReadUntil /\ [][NextReadUntil]_vars

-----------------------------------------------------------------------------
(* parse_status_line applied to the first line of a head, as read_line      *)
(* hands it over (without its line ending).  The line is made of spaces,    *)
(* letters and digits; it has no sign character and is valid UTF-8.         *)

\* The longest first line.
MaxLine == 7

SP == " "

Digits == {"2"}

LineChars == {SP, "H"} \cup Digits

\* `line.split(|&b| b == b' ')`: the pieces between the spaces, empty ones
\* included.
RECURSIVE SplitAt(_, _)
SplitAt(line, sep) ==
    IF \A i \in 1..Len(line) : line[i] # sep
    THEN <<line>>
    ELSE LET i == CHOOSE j \in 1..Len(line) :
                      line[j] = sep /\ \A h \in 1..(j - 1) : line[h] # sep
         IN  <<Take(line, i - 1)>> \o SplitAt(Drop(line, i), sep)

\* `.filter(|x| !x.is_empty())`
Tokens(line) == SelectSeq(SplitAt(line, SP), LAMBDA x : x # <<>>)

\* Whether `code.parse::<i32>()` is Ok, for a token of at most MaxLine + 1
\* characters.
ParsesAsInt(tok) == tok # <<>> /\ \A i \in 1..Len(tok) : tok[i] \in Digits

\* The tokens from position i on, joined by single spaces.
RECURSIVE JoinFrom(_, _)
JoinFrom(toks, i) ==
    IF i > Len(toks) THEN <<>>
    ELSE IF i = Len(toks) THEN toks[i]
    ELSE toks[i] \o <<SP>> \o JoinFrom(toks, i + 1)

\* parse_status_line: [res, a, b] with res "Response" (a the code, b the
\* reason), "Request" (a the method, b the resource),
\* "NoStatusLineInResponse", or "panic" for the unwrap of a first token
\* that is not there.
ParseStatusLine(line) ==
    LET toks == Tokens(line)
    IN  IF Len(toks) = 0
        THEN [res |-> "panic", a |-> <<>>, b |-> <<>>]
        ELSE IF Len(toks) = 1
        THEN [res |-> "NoStatusLineInResponse", a |-> <<>>, b |-> <<>>]
        ELSE IF ParsesAsInt(toks[2])
        THEN IF Len(toks) >= 3
             THEN [res |-> "Response", a |-> toks[2], b |-> toks[3]]
             ELSE [res |-> "NoStatusLineInResponse", a |-> <<>>, b |-> <<>>]
        ELSE [res |-> "Request", a |-> toks[1], b |-> toks[2]]

InitStatusLine ==
    /\ ppc = "call"
    /\ pin \in SeqsUpTo(LineChars, MaxLine)
    /\ pout = <<>>
    /\ ChunkIdle
    /\ BodyIdle
    /\ ClientIdle
    /\ ServerIdle

PParseStatusLine ==
    /\ ppc = "call"
    /\ ppc' = "done"
    /\ pout' = ParseStatusLine(pin)
    /\ UNCHANGED <<pin, kvars, bvars, cvars, svars>>

NextStatusLine == PParseStatusLine

SpecStatusLine == InitStatusLine /\ [][NextStatusLine]_vars

-----------------------------------------------------------------------------
(* The header loop of process_lines applied to a header block: the lines   *)
(* read_line hands over before the blank line, each without its ending.    *)

\* The most lines in a header block.
MaxHeaderLines == 3

\* A byte that is not valid UTF-8 wherever it stands.
BadByte == "<ff>"

\* The lines of a block: two keys, values with and without spaces around
\* them, a value with a colon, a key with a space, an empty value, lines
\* without colon, lines with an invalid byte in the key or in the value.
HeaderLines ==
    { <<"a", ":", "1">>,
      <<"a", ":", " ", "2", " ">>,
      <<"b", ":", "1">>,
      <<"b", ":", "1", ":", "2">>,
      <<"a", " ", ":", "1">>,
      <<"b", ":">>,
      <<"a", "1">>,
      <<" ">>,
      <<"a", BadByte, ":", "1">>,
      <<"a", ":", BadByte>> }

\* std::str::from_utf8(..).is_ok()
ValidUtf8(bytes) == \A i \in 1..Len(bytes) : bytes[i] # BadByte

\* parse_header: <<>> for None, <<[k, v]>> for Some((header, val)).  The
\* value starts after the colon (the test for a space looks at the colon
\* itself and never holds) and is trimmed.
ParseHeader(line) ==
    LET at == Find(line, ":")
    IN  IF at = 0
        THEN <<>>
        ELSE IF ValidUtf8(Take(line, at - 1)) /\ ValidUtf8(Drop(line, at))
        THEN <<[k |-> Take(line, at - 1), v |-> Trim(Drop(line, at))]>>
        ELSE <<>>

\* A map that keeps the value a key had first.
HeadersInsertIfAbsent(h, kv) == IF kv.k \in DOMAIN h THEN h ELSE Put(h, kv.k, kv.v)

\* headers.insert(parsed.0, parsed.1)
HeadersInsert(h, kv) == Put(h, kv.k, kv.v)

\* The loop of process_lines over the lines, from the map h on.
RECURSIVE HeaderLoop(_, _)
HeaderLoop(h, lines) ==
    IF lines = <<>>
    THEN h
    ELSE HeaderLoop(IF ParseHeader(Head(lines)) # <<>>
                    THEN HeadersInsert(h, ParseHeader(Head(lines))[1])
                    ELSE h,
                    Tail(lines))

InitHeaders ==
    /\ ppc = "call"
    /\ pin \in SeqsUpTo(HeaderLines, MaxHeaderLines)
    /\ pout = <<>>
    /\ ChunkIdle
    /\ BodyIdle
    /\ ClientIdle
    /\ ServerIdle

PProcessHeaders ==
    /\ ppc = "call"
    /\ ppc' = "done"
    /\ pout' = HeaderLoop(<<>>, pin)
    /\ UNCHANGED <<pin, kvars, bvars, cvars, svars>>

NextHeaders == PProcessHeaders

SpecHeaders == InitHeaders /\ [][NextHeaders]_vars

-----------------------------------------------------------------------------
(* The two readers of an incoming body: ClientResponse::new and             *)
(* ServerRequest::new decide from the parsed headers which layers decode    *)
(* the body and what byte budget read_to_end_until gets.  A header value    *)
(* with a list in it is given as its comma-separated parts; an absent       *)
(* header is <<>> and a present one <<value>>.                              *)

\* The parts of a Transfer-Encoding or Content-Encoding value.
EncodingParts == {"chunked", " Chunked", "gzip", "identity"}

\* The most parts in one value.
MaxParts == 2

\* `s.trim()` compared with eq_ignore_ascii_case.
TrimEqIgnoreCase(part, word) ==
    \/ part = word
    \/ (part = " Chunked" /\ word = "chunked")

\* `.split(',').map(|s| s.trim()).any(|s| s.eq_ignore_ascii_case(word))`
AnyPartIs(parts, word) == \E i \in 1..Len(parts) : TrimEqIgnoreCase(parts[i], word)

\* check_encodings: (compression, chunking).
CheckEncodings(headers) ==
    [compressed |-> headers.ce # <<>> /\ AnyPartIs(headers.ce[1], "gzip"),
     chunked    |-> headers.te # <<>> /\ AnyPartIs(headers.te[1], "chunked")]

\* A Content-Length value: a number that parses as usize, or a text that
\* does not.
LengthValues == {[num |-> TRUE, n |-> l] : l \in 0..MaxLength} \cup {[num |-> FALSE, n |-> 0]}

\* `headers.get("Content-Length")` then `length.parse::<usize>()`, kept
\* when Ok.
ParsedLength(headers) ==
    IF headers.cl # <<>> /\ headers.cl[1].num THEN <<headers.cl[1].n>> ELSE <<>>

IncomingHeaders ==
    [te : {<<>>} \cup {<<v>> : v \in SeqsUpTo(EncodingParts, MaxParts)},
     ce : {<<>>, <<<<"gzip">>>>},
     cl : {<<>>} \cup {<<v>> : v \in LengthValues}]

\* The status codes of the responses read.
ResponseCodes == {200, 301, 404}

\* ClientResponse::new after process_lines: whether read_to_end_until is
\* called, the layers it reads through and its content_length argument.
ClientResponseNew(headers, code) ==
    [reads          |-> code <= 300 \/ code >= 308,
     chunked        |-> CheckEncodings(headers).chunked,
     compressed     |-> CheckEncodings(headers).compressed,
     content_length |-> ParsedLength(headers)]

\* ServerRequest::new: Content-Length is looked at only when the body is
\* not chunked, and the body is read when it is chunked or has a length.
ServerRequestNew(headers) ==
    [reads          |-> CheckEncodings(headers).chunked
                          \/ (~CheckEncodings(headers).chunked /\ ParsedLength(headers) # <<>>),
     chunked        |-> CheckEncodings(headers).chunked,
     compressed     |-> CheckEncodings(headers).compressed,
     content_length |-> IF CheckEncodings(headers).chunked THEN <<>>
                        ELSE ParsedLength(headers)]

InitReaders ==
    /\ ppc = "call"
    /\ pin \in [side : {"client"}, headers : IncomingHeaders, code : ResponseCodes]
               \cup [side : {"server"}, headers : IncomingHeaders, code : {0}]
    /\ pout = <<>>
    /\ ChunkIdle
    /\ BodyIdle
    /\ ClientIdle
    /\ ServerIdle

PClientResponseNew ==
    /\ ppc = "call"
    /\ pin.side = "client"
    /\ ppc' = "done"
    /\ pout' = ClientResponseNew(pin.headers, pin.code)
    /\ UNCHANGED <<pin, kvars, bvars, cvars, svars>>

PServerRequestNew ==
    /\ ppc = "call"
    /\ pin.side = "server"
    /\ ppc' = "done"
    /\ pout' = ServerRequestNew(pin.headers)
    /\ UNCHANGED <<pin, kvars, bvars, cvars, svars>>

NextReaders == PClientResponseNew \/ PServerRequestNew

SpecReaders == InitReaders /\ [][NextReaders]_vars

-----------------------------------------------------------------------------
(* The deadline of a Server: set_deadline stores (now + time, now) in the   *)
(* Server, and run() hands that one pair to process_request for every       *)
(* connection, where read_to_end_until and write_all_until check it.  pin   *)
(* is [now, secs, deadline, started, rt, wt]: the clock, the argument of    *)
(* set_deadline, Server.deadline, when the current connection was accepted, *)
(* and the timeouts of its socket; pout is what run() returned.  Every      *)
(* request has a body and a handler whose response has one.                 *)

InitServerDeadline ==
    /\ ppc = "config"
    /\ pin = [now |-> 0, secs |-> 0, deadline |-> <<>>, started |-> 0, rt |-> <<>>, wt |-> <<>>]
    /\ pout = "running"
    /\ ChunkIdle
    /\ BodyIdle
    /\ ClientIdle
    /\ ServerIdle

\* Time passes: before run(), while run() waits for a connection, and
\* while a connection is served.
DTick ==
    /\ ppc \in {"config", "listen", "request", "response"}
    /\ pin.now + TickMs <= MaxTime
    /\ pin' = [pin EXCEPT !.now = @ + TickMs]
    /\ UNCHANGED <<ppc, pout, kvars, bvars, cvars, svars>>

\* Server::set_deadline, then run()
DSetDeadline ==
    /\ ppc = "config"
    /\ \E secs \in DeadlineSecs :
         pin' = [pin EXCEPT !.secs = secs, !.deadline = <<pin.now + secs * 1000, pin.now>>]
    /\ ppc' = "listen"
    /\ UNCHANGED <<pout, kvars, bvars, cvars, svars>>

\* run(): the next connection of listener.incoming(); its head is read by
\* process_lines, which takes no deadline.
DAccept ==
    /\ ppc = "listen"
    /\ pin' = [pin EXCEPT !.started = pin.now, !.rt = <<>>, !.wt = <<>>]
    /\ ppc' = "request"
    /\ UNCHANGED <<pout, kvars, bvars, cvars, svars>>

\* ServerRequest::new: read_to_end_until reads the request body; the error
\* of read_until leaves run() through `?`.
DReadBody ==
    /\ ppc = "request"
    /\ LET ck == CheckDeadline(pin.deadline, pin.rt, pin.now)
       IN  IF ck.timedOut
           THEN /\ pout' = "TimedOut"
                /\ ppc' = "stopped"
                /\ pin' = pin
           ELSE /\ pin' = [pin EXCEPT !.deadline = ck.deadline, !.rt = ck.timeout]
                /\ ppc' = "response"
                /\ pout' = pout
    /\ UNCHANGED <<kvars, bvars, cvars, svars>>

\* process_request: write_all_until writes the response body; then run()
\* goes on to the next connection.
DWriteBody ==
    /\ ppc = "response"
    /\ LET ck == CheckDeadline(pin.deadline, pin.wt, pin.now)
       IN  IF ck.timedOut
           THEN /\ pout' = "TimedOut"
                /\ ppc' = "stopped"
                /\ pin' = pin
           ELSE /\ pin' = [pin EXCEPT !.deadline = ck.deadline, !.wt = ck.timeout]
                /\ ppc' = "listen"
                /\ pout' = pout
    /\ UNCHANGED <<kvars, bvars, cvars, svars>>

NextServerDeadline == DTick \/ DSetDeadline \/ DAccept \/ DReadBody \/ DWriteBody

SpecServerDeadline == InitServerDeadline /\ [][NextServerDeadline]_vars

-----------------------------------------------------------------------------
(* The client: the builder calls, then send() *)

InitClient ==
    /\ cphase = "build"
    /\ \E u \in OrigUrls : stack = <<NewClientRequest("GET", ParseUrl(u))>>
    /\ now = 0
    /\ tls \in BOOLEAN
    /\ result = "pending"
    /\ returned = <<>>
    /\ lastIo = "none"
    /\ peerSent = FALSE
    /\ nResp = 0
    /\ lead = 0
    /\ tailOK = TRUE
    /\ ChunkIdle
    /\ BodyIdle
    /\ ServerIdle
    /\ PureIdle

Build(f) ==
    /\ cphase = "build"
    /\ stack' = <<f>>
    /\ stack' # stack
    /\ UNCHANGED <<cphase, now, tls, result, returned, lastIo, peerSent, nResp, lead, tailOK, kvars, bvars, pvars, svars>>

\* ClientRequest::set_max_redirects
CSetMaxRedirects ==
    \E m \in 0..MaxRedirectsArg : Build([stack[1] EXCEPT !.max_redirects = m])

\* ClientRequest::set_deadline
CSetDeadline ==
    \E secs \in DeadlineSecs : Build([stack[1] EXCEPT !.deadline = <<now + secs * 1000, now>>])

\* ClientRequest::set_body
CSetBody ==
    Build([stack[1] EXCEPT !.body = TRUE, !.headers = @ \cup {"Content-Type"}])

\* ClientRequest::set_header, with a name of the application's own
CSetHeader == Build([stack[1] EXCEPT !.headers = @ \cup {"X-Trace"}])

\* ClientRequest::set_chunk_size
CSetChunkSize == \E n \in BuilderChunkSizes : Build(SetChunkSize(stack[1], n))

\* ClientRequest::enable_compression
CEnableCompression == Build([stack[1] EXCEPT !.compression = TRUE])

\* ClientRequest::check_target_encodings
CCheckTargetEncodings == Build([stack[1] EXCEPT !.check_target_encodings = TRUE])

\* The user calls send().
CSend ==
    /\ cphase = "build"
    /\ cphase' = "send"
    /\ UNCHANGED <<stack, now, tls, result, returned, lastIo, peerSent, nResp, lead, tailOK, kvars, bvars, pvars, svars>>

\* send(), up to the encoding check: stream::connect (name resolution, then
\* the TCP connect under the deadline's remaining time), then the test for
\* https without TLS.
CConnect ==
    /\ cphase = "send"
    /\ Top.pc = "connect"
    /\ LET f == [Top EXCEPT !.wt = <<>>, !.rt = <<>>, !.resp = <<>>,
                            !.wleft = 0, !.rcount = 0, !.xfer = <<>>]
       IN  \/ \* the host does not resolve
              /\ Return(f, "ConnectionFailed", <<>>)
              /\ lastIo' = "resolve"
           \/ \* no time is left for connect_timeout
              /\ IsSome(f.deadline)
              /\ \E k \in BadDuration(f.deadline[1], now) : Return(f, k, <<>>)
              /\ lastIo' = "resolve"
           \/ \* the connect fails
              /\ IsSome(f.deadline) => BadDuration(f.deadline[1], now) = {}
              /\ Return(f, "Io", <<>>)
              /\ lastIo' = "connect"
           \/ \* connected
              /\ IsSome(f.deadline) => BadDuration(f.deadline[1], now) = {}
              /\ lastIo' = "connect"
              /\ IF f.url.https /\ ~tls
                 THEN Return(f, "TLSNotEnabled", <<>>)
                 ELSE IF f.compression /\ f.check_target_encodings
                 THEN Continue([f EXCEPT !.pc = "preflight"])
                 ELSE Continue([f EXCEPT !.pc = "head"])
    /\ UNCHANGED <<now, tls, peerSent, nResp, lead, tailOK, kvars, bvars, pvars, svars>>

\* send(): the encoding check.  An OPTIONS request to the host is built with
\* ClientRequest::new, takes over the deadline, and is sent with its own
\* send() before the caller's head is written.
CPreflight ==
    /\ cphase = "send"
    /\ Top.pc = "preflight"
    /\ LET url == ParseUrl(Top.url.host)
       IN  IF ~url.ok
           THEN Return(Top, "InvalidCredentialsInURL", <<>>)
           ELSE /\ stack' = <<[Top EXCEPT !.pc = "checking"],
                              [NewClientRequest("OPTIONS", url) EXCEPT !.deadline = Top.deadline]>>
                /\ UNCHANGED <<cphase, result, returned>>
    /\ lastIo' = "none"
    /\ UNCHANGED <<now, tls, peerSent, nResp, lead, tailOK, kvars, bvars, pvars, svars>>

\* send(): the head is generated and written.  With a deadline the write
\* timeout is set to the time left and the deadline's reset moves to now,
\* whatever the time since the last refresh.
CWriteHead ==
    /\ cphase = "send"
    /\ Top.pc = "head"
    /\ lastIo' = "write"
    /\ LET f0 == Top
           f  == IF IsSome(f0.deadline) /\ BadDuration(f0.deadline[1], now) = {}
                 THEN [f0 EXCEPT !.wt = <<f0.deadline[1] - now>>,
                                 !.deadline = Refreshed(f0.deadline, now)]
                 ELSE f0
           g  == [f EXCEPT !.xfer = Note(@, "whead")]
           next == IF g.body THEN [g EXCEPT !.pc = "body", !.wleft = MaxBodyWrites]
                   ELSE [g EXCEPT !.pc = "rhead"]
       IN  \/ \* the deadline has passed: set_write_timeout is not reached or fails
              /\ IsSome(f0.deadline)
              /\ \E k \in BadDuration(f0.deadline[1], now) : Return(f0, k, <<>>)
              /\ UNCHANGED <<now, peerSent, nResp, lead, tailOK>>
           \/ \* write_all and flush return
              /\ IsSome(f0.deadline) => BadDuration(f0.deadline[1], now) = {}
              /\ \E d \in Delays(f) :
                   /\ IsSome(f.wt) => d < f.wt[1]
                   /\ now + d <= MaxTime
                   /\ now' = now + d
              /\ Continue(next)
              /\ UNCHANGED <<peerSent, nResp, lead, tailOK>>
           \/ \* the write times out
              /\ IsSome(f0.deadline) => BadDuration(f0.deadline[1], now) = {}
              /\ IsSome(f.wt)
              /\ now + f.wt[1] <= MaxTime
              /\ now' = now + f.wt[1]
              /\ Return(f, "IoTimeout", <<>>)
              /\ UNCHANGED <<peerSent, nResp, lead, tailOK>>
           \/ \* the write fails
              /\ IsSome(f0.deadline) => BadDuration(f0.deadline[1], now) = {}
              /\ Return(f, "Io", <<>>)
              /\ UNCHANGED <<now, peerSent, nResp, lead, tailOK>>
           \/ \* the write blocks for ever
              /\ f.wt = <<>>
              /\ Hang
    /\ UNCHANGED <<tls, kvars, bvars, pvars, svars>>

\* One round of write_all_until on the request body: write_until checks and
\* refreshes the deadline, then writes part of what is left; after the last
\* part the stream is flushed.
CWriteBody ==
    /\ cphase = "send"
    /\ Top.pc = "body"
    /\ LET f0 == Top
           ck == CheckDeadline(f0.deadline, f0.wt, now)
           f  == [f0 EXCEPT !.deadline = ck.deadline, !.wt = ck.timeout]
       IN  \/ \* the deadline has passed: no write
              /\ ck.timedOut
              /\ Return(f0, "TimedOut", <<>>)
              /\ lastIo' = "none"
              /\ UNCHANGED <<now, peerSent, nResp, lead, tailOK>>
           \/ \* some bytes are written
              /\ ~ck.timedOut
              /\ lastIo' = "write"
              /\ \E d \in Delays(f) :
                   /\ IsSome(f.wt) => d < f.wt[1]
                   /\ now + d <= MaxTime
                   /\ now' = now + d
              /\ \E n \in 1..f.wleft :
                   Continue([f EXCEPT !.wleft = @ - n,
                                      !.xfer = Note(@, "wbody"),
                                      !.pc = IF f.wleft = n THEN "rhead" ELSE "body"])
              /\ UNCHANGED <<peerSent, nResp, lead, tailOK>>
           \/ \* the write times out
              /\ ~ck.timedOut
              /\ lastIo' = "write"
              /\ IsSome(f.wt)
              /\ now + f.wt[1] <= MaxTime
              /\ now' = now + f.wt[1]
              /\ Return(f, "IoTimeout", <<>>)
              /\ UNCHANGED <<peerSent, nResp, lead, tailOK>>
           \/ \* the write blocks for ever
              /\ ~ck.timedOut
              /\ lastIo' = "write"
              /\ f.wt = <<>>
              /\ Hang
    /\ UNCHANGED <<tls, kvars, bvars, pvars, svars>>

\* ClientResponse::new, first part: process_lines reads the response head
\* from the stream (no deadline is passed to it).
CReadHead ==
    /\ cphase = "send"
    /\ Top.pc = "rhead"
    /\ lastIo' = "read"
    /\ LET f == Top
       IN  \/ \* a head arrives
              /\ nResp < MaxResponses
              /\ \E d \in Delays(f) :
                   /\ IsSome(f.rt) => d < f.rt[1]
                   /\ now + d <= MaxTime
                   /\ now' = now + d
              /\ \E r \in Responses :
                   LET rl == IsRedirect(r.code) /\ "Location" \in DOMAIN r.headers
                   IN  /\ Continue([f EXCEPT !.resp = <<r>>,
                                             !.xfer = Note(@, "rhead"),
                                             !.pc = IF ReadsBody(r.code) THEN "rbody"
                                                    ELSE "decide"])
                       /\ lead' = IF lead = nResp /\ rl THEN lead + 1 ELSE lead
                       /\ tailOK' = (tailOK /\ ((lead = nResp /\ rl) \/ r.code = 200))
              /\ nResp' = nResp + 1
              /\ peerSent' = TRUE
           \/ \* the peer sends no usable head
              /\ \E k \in {"NoStatusLineInResponse", "Io"} : Return(f, k, <<>>)
              /\ UNCHANGED <<now, peerSent, nResp, lead, tailOK>>
           \/ \* the read times out
              /\ IsSome(f.rt)
              /\ now + f.rt[1] <= MaxTime
              /\ now' = now + f.rt[1]
              /\ Return(f, "IoTimeout", <<>>)
              /\ UNCHANGED <<peerSent, nResp, lead, tailOK>>
           \/ \* the read blocks for ever
              /\ f.rt = <<>>
              /\ Hang
    /\ UNCHANGED <<tls, kvars, bvars, pvars, svars>>

\* ClientResponse::new, second part: one round of read_to_end_until on the
\* response body.  read_until checks and refreshes the deadline, then reads.
CReadBody ==
    /\ cphase = "send"
    /\ Top.pc = "rbody"
    /\ LET f0 == Top
           ck == CheckDeadline(f0.deadline, f0.rt, now)
           f  == [f0 EXCEPT !.deadline = ck.deadline, !.rt = ck.timeout]
       IN  \/ \* the deadline has passed: no read
              /\ ck.timedOut
              /\ Return(f0, "TimedOut", <<>>)
              /\ lastIo' = "none"
              /\ UNCHANGED <<now, peerSent, nResp, lead, tailOK>>
           \/ \* data arrives and the body is not complete
              /\ ~ck.timedOut
              /\ lastIo' = "read"
              /\ f.rcount < MaxBodyReads
              /\ \E d \in Delays(f) :
                   /\ IsSome(f.rt) => d < f.rt[1]
                   /\ now + d <= MaxTime
                   /\ now' = now + d
              /\ Continue([f EXCEPT !.rcount = @ + 1, !.xfer = Note(@, "rbody")])
              /\ UNCHANGED <<peerSent, nResp, lead, tailOK>>
           \/ \* the body ends: the Content-Length is reached or the read gives 0
              /\ ~ck.timedOut
              /\ lastIo' = "read"
              /\ \E d \in Delays(f) :
                   /\ IsSome(f.rt) => d < f.rt[1]
                   /\ now + d <= MaxTime
                   /\ now' = now + d
              /\ Continue([f EXCEPT !.pc = "decide", !.xfer = Note(@, "rbody")])
              /\ UNCHANGED <<peerSent, nResp, lead, tailOK>>
           \/ \* the read times out
              /\ ~ck.timedOut
              /\ lastIo' = "read"
              /\ IsSome(f.rt)
              /\ now + f.rt[1] <= MaxTime
              /\ now' = now + f.rt[1]
              /\ Return(f, "IoTimeout", <<>>)
              /\ UNCHANGED <<peerSent, nResp, lead, tailOK>>
           \/ \* the read blocks for ever
              /\ ~ck.timedOut
              /\ lastIo' = "read"
              /\ f.rt = <<>>
              /\ Hang
    /\ UNCHANGED <<tls, kvars, bvars, pvars, svars>>

\* The end of send(): the redirect handling.
CDecide ==
    /\ cphase = "send"
    /\ Top.pc = "decide"
    /\ LET dec == RedirectDecision(Top, Top.resp[1])
       IN  IF dec.kind = "Redirect"
           THEN Continue(dec.f)
           ELSE Return(dec.f, dec.kind, Top.resp[1])
    /\ lastIo' = "none"
    /\ UNCHANGED <<now, tls, peerSent, nResp, lead, tailOK, kvars, bvars, pvars, svars>>

\* A request without the encoding check: any redirect limit, with or without
\* a deadline and a body.
NextClient ==
    \/ CSetMaxRedirects \/ CSetDeadline \/ CSetBody \/ CSend
    \/ CConnect \/ CWriteHead \/ CWriteBody \/ CReadHead \/ CReadBody \/ CDecide

SpecClient == InitClient /\ [][NextClient]_vars

\* A request that may enable compression and the encoding check (no deadline
\* and no body, which play no part in the check).
NextPreflight ==
    \/ CSetMaxRedirects \/ CEnableCompression \/ CCheckTargetEncodings \/ CSend
    \/ CConnect \/ CPreflight \/ CWriteHead \/ CReadHead \/ CReadBody \/ CDecide

\* The constructors of client/mod.rs: get, head, post, delete (put, patch,
\* trace, options and connect differ from post only in the name).
Methods == {"GET", "HEAD", "POST", "DELETE"}

\* A request of any method, with any redirect limit and no deadline.
InitMethods ==
    /\ cphase = "build"
    /\ \E u \in OrigUrls : \E m \in Methods : stack = <<NewClientRequest(m, ParseUrl(u))>>
    /\ now = 0
    /\ tls \in BOOLEAN
    /\ result = "pending"
    /\ returned = <<>>
    /\ lastIo = "none"
    /\ peerSent = FALSE
    /\ nResp = 0
    /\ lead = 0
    /\ tailOK = TRUE
    /\ ChunkIdle
    /\ BodyIdle
    /\ ServerIdle
    /\ PureIdle

NextMethods ==
    \/ CSetMaxRedirects \/ CSend \/ CConnect
    \/ CWriteHead \/ CReadHead \/ CReadBody \/ CDecide

SpecMethods == InitMethods /\ [][NextMethods]_vars

\* A request of any method with headers, a body and a chunk size (no
\* compression, no deadline), followed over its redirects.
NextHop ==
    \/ CSetMaxRedirects \/ CSetHeader \/ CSetBody \/ CCheckTargetEncodings \/ CSetChunkSize
    \/ CSend \/ CConnect \/ CWriteHead \/ CWriteBody \/ CReadHead \/ CReadBody \/ CDecide

SpecHop == InitMethods /\ [][NextHop]_vars

SpecPreflight == InitClient /\ [][NextPreflight]_vars

-----------------------------------------------------------------------------
(* The server: Server::run (server/mod.rs)                                   *)

\* At most this many expectation checks are registered.
MaxChecks == 2

\* run() accepts at most this many connections.
MaxConns == 2

\* The code an expectation check returns to approve the head, and the code
\* continue_code starts with.
ContinueCode == 100

\* The resources requests name, and the ones a route handler may be
\* registered for.
Resources == {"/a", "/b"}

Routes == {"/a"}

\* The request heads process_lines may parse: with or without an Expect
\* header, a body announced by Content-Length, by Transfer-Encoding: chunked
\* or not at all.
Requests == [expect : BOOLEAN, framing : {"none", "length", "chunked"}, resource : Resources]

\* The expectation checks a user registers.
CheckKinds == {"allow", "deny417", "deny400", "code102", "needLength", "fail"}

\* What a check returns for a head: [err, code, msg].
Check(kind, head) ==
    CASE kind = "allow"      -> [err |-> FALSE, code |-> 100, msg |-> <<>>]
      [] kind = "deny417"    -> [err |-> FALSE, code |-> 417, msg |-> <<"nope">>]
      [] kind = "deny400"    -> [err |-> FALSE, code |-> 400, msg |-> <<>>]
      [] kind = "code102"    -> [err |-> FALSE, code |-> 102, msg |-> <<>>]
      [] kind = "needLength" -> IF head.framing = "length"
                                THEN [err |-> FALSE, code |-> 100, msg |-> <<>>]
                                ELSE [err |-> FALSE, code |-> 411, msg |-> <<"length">>]
      [] kind = "fail"       -> [err |-> TRUE, code |-> 0, msg |-> <<>>]

\* The status codes ServerResponse::new has a reason phrase for.
RecognisedCodes ==
    {100, 101, 103} \cup (200..206) \cup (300..308) \cup (400..418)
    \cup {421, 425, 426, 428, 429, 431, 451} \cup (500..506) \cup {510, 511}

\* ServerResponse::new: [ok, resp]; not ok is HTTPStatusCodeNotRecognized.
ServerResponseNew(status) ==
    [ok |-> status \in RecognisedCodes,
     resp |-> [code |-> status, headers |-> {}, body |-> <<>>]]

\* ServerResponse::set_body
ServerSetBody(resp, body) ==
    [resp EXCEPT !.headers = @ \cup {"Content-Type"}, !.body = <<body>>]

\* A server that never finds the Expect header.
NeedsContinueNever(head, checks) == FALSE

\* The test of run() for starting the 100-continue negotiation.
NeedsContinue(head, checks) == head.expect /\ checks # <<>>

\* The loop over expect_handlers without its break: the last code other than
\* 100 is kept.
ExpectIterationNoBreak(r, i, n, code, msg) ==
    [code |-> IF r.code # 100 THEN r.code ELSE code,
     msg  |-> IF r.code # 100 THEN r.msg ELSE msg,
     next |-> IF i = n THEN "respond" ELSE "expect"]

\* One iteration of the loop over expect_handlers, for the result r of the
\* check at position i of n: [code, msg, next]; a non-100 code is recorded
\* and breaks the loop.
ExpectIteration(r, i, n, code, msg) ==
    IF r.code # ContinueCode
    THEN [code |-> r.code, msg |-> r.msg, next |-> "respond"]
    ELSE [code |-> code, msg |-> msg,
          next |-> IF i = n THEN "respond" ELSE "expect"]

\* A run() that falls through into process_request after a rejection.
AfterResponseFallThrough(code) == "request"

\* Where run() goes after writing the response of the negotiation: on to
\* process_request after the interim 100, to the next connection otherwise.
AfterResponse(code) == IF code = ContinueCode THEN "request" ELSE "accept"

\* Whether ServerRequest::new reads a body.
ReadsRequestBody(head) == head.framing \in {"chunked", "length"}

\* run() returns the error kind.
Stop(kind) ==
    /\ spc' = "stopped"
    /\ sres' = kind

\* A response whose body goes out before its head.
ResponseWritesBodyFirst(resp) ==
    (IF resp.body # <<>> THEN <<"wbody">> ELSE <<>>) \o <<"whead">>

\* What the write of a response transfers, in order: the head (status line,
\* headers, empty line), then the body if there is one.
ResponseWrites(resp) ==
    <<"whead">> \o (IF resp.body # <<>> THEN <<"wbody">> ELSE <<>>)

\* A server that answers 404 when no handler matches.
UnmatchedNotFound(written) ==
    Append(written, [code |-> 404, headers |-> {}, body |-> <<>>])

\* The `else` of the handler lookup in process_request: a warning is logged;
\* the responses written on the connection stay what they were.
Unmatched(written) == written

InitServer ==
    /\ spc = "config"
    /\ expect_handlers = <<>>
    /\ handlers = {}
    /\ conn = 0
    /\ info = NoInfo
    /\ next_check = 1
    /\ continue_100 = FALSE
    /\ continue_code = ContinueCode
    /\ continue_msg = <<>>
    /\ calls = <<>>
    /\ slog = <<>>
    /\ swire = <<>>
    /\ sxfer = <<>>
    /\ sres = "running"
    /\ ChunkIdle
    /\ BodyIdle
    /\ ClientIdle
    /\ PureIdle

\* Server::add_expect_handler
SAddExpectHandler ==
    /\ spc = "config"
    /\ Len(expect_handlers) < MaxChecks
    /\ \E k \in CheckKinds : expect_handlers' = Append(expect_handlers, k)
    /\ UNCHANGED <<spc, handlers, conn, info, next_check, continue_100, continue_code,
                   continue_msg, calls, slog, swire, sres, sxfer, kvars, bvars, pvars, cvars>>

\* Server::add_handler
SAddHandler ==
    /\ spc = "config"
    /\ \E r \in Routes : handlers' = handlers \cup {r}
    /\ handlers' # handlers
    /\ UNCHANGED <<spc, expect_handlers, conn, info, next_check, continue_100, continue_code,
                   continue_msg, calls, slog, swire, sres, sxfer, kvars, bvars, pvars, cvars>>

\* Server::run is called.
SRun ==
    /\ spc = "config"
    /\ spc' = "accept"
    /\ UNCHANGED <<expect_handlers, handlers, conn, info, next_check, continue_100,
                   continue_code, continue_msg, calls, slog, swire, sres, sxfer, kvars, bvars, pvars, cvars>>

\* The next connection of listener.incoming(): it is served only now, after
\* the one before is finished.  A failed accept ends run().
SAccept ==
    /\ spc = "accept"
    /\ conn < MaxConns
    /\ \/ /\ conn' = conn + 1
          /\ spc' = "head"
          /\ sres' = sres
       \/ /\ Stop("Io")
          /\ conn' = conn
    /\ info' = NoInfo
    /\ calls' = <<>>
    /\ slog' = <<>>
    /\ swire' = <<>>
    /\ sxfer' = <<>>
    /\ UNCHANGED <<expect_handlers, handlers, next_check, continue_100, continue_code,
                   continue_msg, kvars, bvars, pvars, cvars>>

\* stream::process_lines on the accepted connection, then the locals of the
\* negotiation and the test for it.
SProcessLines ==
    /\ spc = "head"
    /\ \/ \E head \in Requests :
            /\ info' = head
            /\ continue_100' = NeedsContinue(head, expect_handlers)
            /\ spc' = IF NeedsContinue(head, expect_handlers) THEN "expect" ELSE "request"
            /\ sres' = sres
            /\ sxfer' = Append(sxfer, "rhead")
       \/ \E k \in {"NoStatusLineInResponse", "Io"} :
            /\ Stop(k)
            /\ UNCHANGED <<info, continue_100, sxfer>>
    /\ continue_code' = ContinueCode
    /\ continue_msg' = <<>>
    /\ next_check' = 1
    /\ UNCHANGED <<expect_handlers, handlers, conn, calls, slog, swire, kvars, bvars, pvars, cvars>>

\* One iteration of `for handler in expect_handlers.iter()`: the check is
\* called with the head; its error ends run().
SExpectHandler ==
    /\ spc = "expect"
    /\ LET r  == Check(expect_handlers[next_check], info)
           it == ExpectIteration(r, next_check, Len(expect_handlers),
                                 continue_code, continue_msg)
       IN  /\ calls' = Append(calls, next_check)
           /\ IF r.err
              THEN /\ Stop("ExpectHandler")
                   /\ UNCHANGED <<continue_code, continue_msg, next_check>>
              ELSE /\ continue_code' = it.code
                   /\ continue_msg' = it.msg
                   /\ spc' = it.next
                   /\ next_check' = IF it.next = "expect" THEN next_check + 1 ELSE next_check
                   /\ sres' = sres
    /\ UNCHANGED <<expect_handlers, handlers, conn, info, continue_100, slog, swire,
                   sxfer, kvars, bvars, pvars, cvars>>

\* The `if continue_100` branch of run(): the response for continue_code is
\* built and written, with the message as its body after a rejection.
SRespond ==
    /\ spc = "respond"
    /\ LET new  == ServerResponseNew(continue_code)
           resp == IF continue_code # ContinueCode /\ IsSome(continue_msg)
                   THEN ServerSetBody(new.resp, continue_msg[1])
                   ELSE new.resp
       IN  IF ~new.ok
           THEN /\ Stop("HTTPStatusCodeNotRecognized")
                /\ UNCHANGED <<slog, swire, sxfer>>
           ELSE \/ \* write_all and flush succeed
                   /\ swire' = Append(swire, resp)
                   /\ sxfer' = sxfer \o ResponseWrites(resp)
                   /\ slog' = Append(slog, IF continue_code = ContinueCode
                                           THEN "interim" ELSE "reject")
                   /\ spc' = AfterResponse(continue_code)
                   /\ sres' = sres
                \/ \* the write fails
                   /\ Stop("Io")
                   /\ UNCHANGED <<slog, swire, sxfer>>
    /\ UNCHANGED <<expect_handlers, handlers, conn, info, next_check, continue_100,
                   continue_code, continue_msg, calls, kvars, bvars, pvars, cvars>>

\* process_request, first part: ServerRequest::new reads the body the head
\* announces.
SReadRequest ==
    /\ spc = "request"
    /\ IF ReadsRequestBody(info)
       THEN \/ /\ slog' = Append(slog, "body")
               /\ sxfer' = Append(sxfer, "rbody")
               /\ spc' = "dispatch"
               /\ sres' = sres
            \/ /\ \E k \in {"Io", "TimedOut", "ChunkError"} : Stop(k)
               /\ slog' = Append(slog, "body")
               /\ sxfer' = Append(sxfer, "rbody")
       ELSE /\ spc' = "dispatch"
            /\ UNCHANGED <<slog, sxfer, sres>>
    /\ UNCHANGED <<expect_handlers, handlers, conn, info, next_check, continue_100,
                   continue_code, continue_msg, calls, swire, kvars, bvars, pvars, cvars>>

\* process_request, second part: the handler registered for the resource is
\* called and its response written; without one nothing is written.
SDispatch ==
    /\ spc = "dispatch"
    /\ IF info.resource \in handlers
       THEN /\ slog' = Append(slog, "handler")
            /\ \/ \E b \in {<<>>, <<"ok">>} :
                    \E resp \in {[code |-> 200,
                                  headers |-> IF b = <<>> THEN {}
                                              ELSE {"Content-Type", "Content-Length"},
                                  body |-> b]} :
                        /\ swire' = Append(swire, resp)
                        /\ sxfer' = sxfer \o ResponseWrites(resp)
                        /\ spc' = "accept"
                        /\ sres' = sres
               \/ \* the handler fails, or the write of its response does
                  /\ \E k \in {"Handler", "Io"} : Stop(k)
                  /\ UNCHANGED <<swire, sxfer>>
       ELSE /\ spc' = "accept"
            /\ swire' = Unmatched(swire)
            /\ UNCHANGED <<slog, sxfer, sres>>
    /\ UNCHANGED <<expect_handlers, handlers, conn, info, next_check, continue_100,
                   continue_code, continue_msg, calls, kvars, bvars, pvars, cvars>>

NextServer ==
    \/ SAddExpectHandler \/ SAddHandler \/ SRun \/ SAccept \/ SProcessLines
    \/ SExpectHandler \/ SRespond \/ SReadRequest \/ SDispatch

SpecServer == InitServer /\ [][NextServer]_vars

-----------------------------------------------------------------------------
(* Both ends of the library: a program that sends a request with            *)
(* ClientRequest::send, or a program that runs a Server.                    *)

InitEnds == InitClient \/ InitServer

NextEnds == NextClient \/ NextServer

SpecEnds == InitEnds /\ [][NextEnds]_vars

-----------------------------------------------------------------------------
(* Properties of the client *)

\* send() has made its redirect decision for the response it holds.
Deciding == cphase = "send" /\ Top.pc = "decide"

\* The request the user built and sent.
Sent == stack[1]

\* C1: for a client with max_redirects M and a peer that answers k requests
\* in a row with a 3xx carrying Location and every later one with 200, a
\* send() that ends without a transport error returns the 200 when k <= M
\* and fails with MaxRedirectsHit when k > M.
C1_RedirectLimit ==
    (cphase = "done" /\ tailOK /\ result \in {"Ok", "MaxRedirectsHit"}) =>
        IF lead <= Sent.max_redirects
        THEN result = "Ok" /\ returned[1].code = 200
        ELSE result = "MaxRedirectsHit"

\* C2: at the redirect decision send() re-issues the request exactly when
\* the status is in [300,308], a Location header is present and the hop count
\* is below the maximum; a response with a status outside [300,308] is
\* returned to the caller and send() is over.
C2_RedirectStateMachine ==
    [][Deciding =>
         LET f == Top
             r == Top.resp[1]
             inRange == r.code >= 300 /\ r.code <= 308
             reissued == /\ cphase' = "send"
                         /\ stack'[Len(stack)].pc = "connect"
                         /\ Len(stack'[Len(stack)].redirects) = Len(f.redirects) + 1
         IN  /\ reissued <=> (/\ inRange
                              /\ "Location" \in DOMAIN r.headers
                              /\ Len(f.redirects) < f.max_redirects)
             /\ ~inRange => (/\ cphase' = "done"
                             /\ result' = "Ok"
                             /\ returned' = <<r>>)
             /\ ~reissued => cphase' = "done"]_vars

\* C2 witness: a redirect has been followed and the next hop is about to connect.
C2_Witness ==
    /\ cphase = "send"
    /\ Top.pc = "connect"
    /\ Len(Top.redirects) = 1
    /\ nResp = 1

\* C3, as stated: whenever the response at the redirect decision has a status
\* in [300,308] and no Location header, send() fails with NoLocationHeader,
\* whatever the hop count and the maximum.
C3_NoLocationAlways ==
    [][(/\ Deciding
        /\ Top.resp[1].code >= 300 /\ Top.resp[1].code <= 308
        /\ "Location" \notin DOMAIN Top.resp[1].headers)
       => (cphase' = "done" /\ result' = "NoLocationHeader")]_vars

\* C3, amended: such a response fails with NoLocationHeader when the hop
\* count is below max_redirects, and with MaxRedirectsHit when the hop count
\* has reached max_redirects (always so when max_redirects is 0).
C3_NoLocationBelowMax ==
    [][(/\ Deciding
        /\ Top.resp[1].code >= 300 /\ Top.resp[1].code <= 308
        /\ "Location" \notin DOMAIN Top.resp[1].headers)
       => /\ cphase' = "done"
          /\ result' = IF Len(Top.redirects) < Top.max_redirects
                       THEN "NoLocationHeader"
                       ELSE "MaxRedirectsHit"]_vars

\* C3 witness: after one followed redirect a 3xx without Location has ended
\* send() with NoLocationHeader.
C3_Witness ==
    /\ cphase = "done"
    /\ result = "NoLocationHeader"
    /\ Len(Sent.redirects) = 1
    /\ "Location" \notin DOMAIN Sent.resp[1].headers

\* C16: a send() that fails with TLSNotEnabled has made no network call: no
\* name resolution and no TCP connect.
C16_NoIoBeforeTlsError ==
    (cphase = "done" /\ result = "TLSNotEnabled") => lastIo = "none"

\* C20: on every hop after the first the request goes out as the method it
\* was constructed with if that is GET or HEAD, and as GET otherwise; before
\* the first redirect it goes out as constructed.
C20_RedirectMethod ==
    \A k \in 1..Len(stack) :
        LET f == stack[k]
        IN  IF f.redirects = <<>>
            THEN f.method = f.requested
            ELSE f.method = (IF f.requested \in {"GET", "HEAD"} THEN f.requested ELSE "GET")

\* C20 witness: a POST request followed two redirects and is about to go
\* out for the third time, as GET.
C20_Witness ==
    /\ cphase = "send"
    /\ Sent.requested = "POST"
    /\ Len(Sent.redirects) = 2
    /\ Sent.method = "GET"
    /\ Sent.pc = "head"

\* C7: with a deadline set and a peer that has sent nothing, send() is never
\* blocked for ever in a socket call.
C7_NeverBlocks ==
    (IsSome(Sent.deadline) /\ ~peerSent) => cphase # "hung"

\* C8: a call of write_until (request body) or read_until (response body).
\* With a deadline (expiry, last_refresh): when 250 ms or more have passed
\* since last_refresh, the call fails with TimedOut without I/O if
\* now >= expiry, and otherwise sets the socket timeout to expiry - now and
\* last_refresh to now before the I/O; when less has passed, the I/O is done
\* with deadline and timeout as they were.  Without a deadline there is no
\* check and no timeout.
C8_RefreshRule ==
    [][(cphase = "send" /\ Top.pc \in {"body", "rbody"}) =>
         LET f  == Top
             g  == stack'[Len(stack)]
             wr == f.pc = "body"
             io == IF wr THEN "write" ELSE "read"
             before == IF wr THEN f.wt ELSE f.rt
             after  == IF wr THEN g.wt ELSE g.rt
             other  == IF wr THEN g.rt = f.rt ELSE g.wt = f.wt
         IN  /\ other
             /\ IF f.deadline = <<>>
                THEN /\ lastIo' = io
                     /\ g.deadline = <<>>
                     /\ after = before
                     /\ result' # "TimedOut"
                ELSE IF now - f.deadline[2] >= 250
                THEN IF now >= f.deadline[1]
                     THEN /\ lastIo' = "none"
                          /\ cphase' = "done"
                          /\ result' = "TimedOut"
                          /\ now' = now
                     ELSE /\ lastIo' = io
                          /\ g.deadline = <<f.deadline[1], now>>
                          /\ after = <<f.deadline[1] - now>>
                          /\ result' # "TimedOut"
                ELSE /\ lastIo' = io
                     /\ g.deadline = f.deadline
                     /\ after = before
                     /\ result' # "TimedOut"]_vars

\* C8 witness: on the first hop write_until has refreshed: the head was
\* written at time 0, and now last_refresh is later and the write timeout is
\* what was left of the deadline at that time.
C8_Witness ==
    /\ cphase = "send"
    /\ Top.redirects = <<>>
    /\ Top.pc = "rhead"
    /\ Top.body
    /\ IsSome(Top.deadline)
    /\ Top.deadline[2] > 0
    /\ Top.wt = <<Top.deadline[1] - Top.deadline[2]>>

\* C9: during send() no step changes the expiry of the request's deadline,
\* and a request without a deadline stays without one.
C9_ExpiryFixed ==
    [][cphase = "send" =>
         \A i \in 1..Len(stack') : Expiry(stack'[i]) = Expiry(Sent)]_vars

\* C9 witness: on a later hop, with a deadline whose last_refresh has moved.
C9_Witness ==
    /\ cphase = "send"
    /\ Len(Top.redirects) >= 1
    /\ IsSome(Top.deadline)
    /\ Top.deadline[2] > 0
    /\ Top.pc = "rbody"

-----------------------------------------------------------------------------
(* Properties of the server *)

\* The current connection's request has an Expect header and the negotiation
\* was started for it.
Negotiated == info.expect /\ expect_handlers # <<>> /\ spc \notin {"config", "head"}

\* Every registered check approves the current head.
AllApprove ==
    \A i \in 1..Len(expect_handlers) :
        LET r == Check(expect_handlers[i], info) IN ~r.err /\ r.code = 100

\* The positions of an entry in the connection's log.
At(what) == {i \in 1..Len(slog) : slog[i] = what}

\* C4: for a head with an Expect header, at least one registered check and
\* every check returning 100, the first thing the server does on the
\* connection is to write a 100 interim response; the body is read and the
\* route handler called only after it, on that connection, the body before
\* the handler.
C4_ContinueAccepted ==
    (Negotiated /\ AllApprove) =>
        /\ (spc \in {"request", "dispatch", "accept"} \/ slog # <<>>) =>
               /\ slog # <<>> /\ slog[1] = "interim"
               /\ swire # <<>> /\ swire[1] = [code |-> 100, headers |-> {}, body |-> <<>>]
               /\ calls = [i \in 1..Len(expect_handlers) |-> i]
        /\ \A i \in At("body") \cup At("handler") : i > 1
        /\ \A i \in At("body") : \A j \in At("handler") : i < j
        /\ (spc \in {"dispatch", "accept"} /\ info.framing # "none") => At("body") # {}
        /\ (spc = "accept" /\ info.resource \in handlers) => At("handler") # {}

\* C4 witness: two checks approved, the interim response was written, then
\* the body was read and the handler called, and the connection is finished.
C4_Witness ==
    /\ spc = "accept"
    /\ info.expect
    /\ Len(expect_handlers) = 2
    /\ calls = <<1, 2>>
    /\ slog = <<"interim", "body", "handler">>
    /\ Len(swire) = 2
    /\ swire[1].code = 100

\* The negotiation of the current request ended with a code other than 100,
\* and the server is done with the request without a transport failure.
Rejected ==
    /\ Negotiated
    /\ continue_code # 100
    /\ spc \in {"accept", "stopped"}
    /\ sres # "Io"

\* C5, as stated: after a check has returned a code other than 100 the server
\* has written exactly one response, with that code and the check's message
\* as body, has read no body and has called no route handler.
C5_RejectedAnyCode ==
    Rejected =>
        /\ Len(swire) = 1
        /\ swire[1].code = continue_code
        /\ swire[1].body = continue_msg
        /\ slog = <<"reject">>

\* C5, amended: that holds for a code other than 100 that ServerResponse::new
\* recognises.  For a code it does not recognise, run() ends with
\* HTTPStatusCodeNotRecognized and nothing is written.  In both cases the
\* request body is never read and no route handler is called.
C5_RejectedRecognisedCode ==
    /\ (Negotiated /\ continue_code # 100) =>
           /\ spc \in {"respond", "accept", "stopped"}
           /\ At("body") = {} /\ At("handler") = {} /\ At("interim") = {}
    /\ Rejected =>
           IF continue_code \in RecognisedCodes
           THEN /\ spc = "accept"
                /\ sres = "running"
                /\ Len(swire) = 1
                /\ swire[1].code = continue_code
                /\ swire[1].body = continue_msg
                /\ slog = <<"reject">>
           ELSE /\ spc = "stopped"
                /\ sres = "HTTPStatusCodeNotRecognized"
                /\ swire = <<>>
                /\ slog = <<>>

\* C5 witness: a request that announced a body was rejected with 417 and the
\* message "nope"; the response is the only thing done on the connection.
C5_Witness ==
    /\ spc = "accept"
    /\ info.expect
    /\ info.framing # "none"
    /\ info.resource \in handlers
    /\ continue_code = 417
    /\ slog = <<"reject">>
    /\ swire = <<[code |-> 417, headers |-> {"Content-Type"}, body |-> <<"nope">>]>>

\* run() is in the exchange of the connection it accepted last.
Serving == spc \in {"head", "expect", "respond", "request", "dispatch"}

\* C17: while the exchange on one connection is in progress, the server can
\* accept and serve the next connection.
C17_AcceptWhileServing ==
    (Serving /\ conn < MaxConns) => ENABLED SAccept

\* The errors of one connection's exchange: a head that does not parse, a
\* body with bad framing, an error returned by a route handler or by an
\* expectation check.
ExchangeErrors == {"NoStatusLineInResponse", "ChunkError", "Handler", "ExpectHandler"}

\* C18: an error of the exchange on one connection does not end run(): the
\* accept loop goes on.
C18_ErrorKeepsLoop ==
    spc = "stopped" => sres \notin ExchangeErrors

C6_ChecksInOrder ==
    LET n == Len(calls)
        res(i) == Check(expect_handlers[i], info)
        bad == {i \in 1..Len(expect_handlers) : res(i).code # 100}
        first == CHOOSE j \in bad : \A i \in bad : j <= i
    IN  /\ n <= Len(expect_handlers)
        /\ \A i \in 1..n : calls[i] = i
        /\ \A i \in 1..(n - 1) : res(i).code = 100 /\ ~res(i).err
        /\ (Negotiated /\ spc # "expect" /\ sres # "ExpectHandler") =>
               IF bad = {}
               THEN n = Len(expect_handlers) /\ continue_code = 100 /\ continue_msg = <<>>
               ELSE /\ n = first
                    /\ continue_code = res(first).code
                    /\ continue_msg = res(first).msg

\* C6 witness: of two registered checks the first approved a head that the
\* second rejected, or the first rejected and the second was not called.
C6_Witness ==
    /\ spc = "respond"
    /\ Len(expect_handlers) = 2
    /\ calls = <<1>>
    /\ continue_code = 417
    /\ continue_msg = <<"nope">>

-----------------------------------------------------------------------------
(* Properties of the chunked codec *)

\* The frame a peer sent declares a size that is not the number of payload
\* bytes before its CRLF.
FrameMismatch ==
    /\ frame.size >= 1
    /\ frame.ending = <<CR, LF>>
    /\ frame.size # Len(frame.data)

\* C11: reading a frame whose declared size does not match the payload bytes
\* that precede its CRLF never ends as a valid body: the read fails.
C11_MismatchRejected ==
    (kpc = "done" /\ FrameMismatch) => kres # "ok"

\* The values of the lines of a head that carry a header name.
ValuesOf(head, k) == {head[i].v : i \in {j \in 1..Len(head) : head[j].k = k}}

\* C21: the head written for a request or a response never has both a
\* Content-Length and a Transfer-Encoding header.
C21_LengthXorChunked ==
    ppc = "done" =>
        ~(ValuesOf(pout.head, "Content-Length") # {}
          /\ ValuesOf(pout.head, "Transfer-Encoding") # {})

\* C22: for a message with a body and no chunk size (and no Content-Length
\* set by hand) the head has one Content-Length, and its value is the number
\* of body bytes written to the stream.
C22_LengthIsWireLength ==
    (ppc = "done" /\ pin.body # <<>> /\ pin.chunk_size = <<>>
       /\ "Content-Length" \notin DOMAIN pin.headers) =>
        ValuesOf(pout.head, "Content-Length") = {<<Len(pout.wire)>>}

\* The call of read_until got as far as the read, and the read failed.
ReadFailed ==
    /\ ppc = "done"
    /\ ~CheckDeadline(pin.deadline, <<>>, pin.now).timedOut
    /\ ~pin.read.ok

\* C23, as stated: a read that fails because the peer reset or aborted the
\* connection is returned as Ok(0), every other failure as Error::Io.
C23_ResetIsEndOfStream ==
    ReadFailed =>
        IF pin.read.kind \in {"ConnectionAborted", "ConnectionReset"}
        THEN pout = [err |-> "none", kind |-> "none", n |-> 0]
        ELSE pout = [err |-> "Io", kind |-> pin.read.kind, n |-> 0]

\* C23, amended: only the failure of kind ConnectionAborted whose inner
\* error names the CloseNotify alert is returned as Ok(0); every other
\* failure, a reset or another abort included, is returned as Error::Io
\* with its kind.
C23_CloseNotifyIsEndOfStream ==
    ReadFailed =>
        IF pin.read.kind = "ConnectionAborted" /\ pin.read.inner = "CloseNotify"
        THEN pout = [err |-> "none", kind |-> "none", n |-> 0]
        ELSE pout = [err |-> "Io", kind |-> pin.read.kind, n |-> 0]

\* C23 witness: under a deadline that has not passed, the read failed with
\* the CloseNotify abort and read_until returned Ok(0).
C23_Witness ==
    /\ ReadFailed
    /\ pin.deadline # <<>>
    /\ pin.read.kind = "ConnectionAborted"
    /\ pin.read.inner = "CloseNotify"
    /\ pout.err = "none"
    /\ pout.n = 0

\* C24: a first line whose second token is an integer and that has a third
\* token parses to Response(code, all the tokens after the code); a first
\* line whose second token is not an integer parses to
\* Request(first token, second token).
C24_StartLine ==
    ppc = "done" =>
        LET toks == Tokens(pin)
        IN  /\ (Len(toks) >= 3 /\ ParsesAsInt(toks[2])) =>
                   pout = [res |-> "Response", a |-> toks[2], b |-> JoinFrom(toks, 3)]
            /\ (Len(toks) >= 2 /\ ~ParsesAsInt(toks[2])) =>
                   pout = [res |-> "Request", a |-> toks[1], b |-> toks[2]]

\* C25: a first line without a token or with a single token gives the
\* error NoStatusLineInResponse.
C25_NoStartLine ==
    (ppc = "done" /\ Len(Tokens(pin)) <= 1) => pout.res = "NoStatusLineInResponse"

\* A line with a colon and valid text on both sides of it: what is before
\* the first colon is its key, what is after it, trimmed, its value.
WellFormed(line) ==
    /\ \E i \in 1..Len(line) : line[i] = ":"
    /\ \A i \in 1..Len(line) : line[i] # BadByte

KeyOf(line) == Take(line, Find(line, ":") - 1)

ValueOf(line) == Trim(Drop(line, Find(line, ":")))

\* The positions of the well-formed lines of a block.
WellFormedIn(block) == {i \in 1..Len(block) : WellFormed(block[i])}

\* The last-write-wins map of a block: every key of a well-formed line, with
\* the value of the last well-formed line that has it.
LastWins(block) ==
    [k \in {KeyOf(block[i]) : i \in WellFormedIn(block)} |->
        ValueOf(block[CHOOSE i \in WellFormedIn(block) :
                         /\ KeyOf(block[i]) = k
                         /\ \A j \in WellFormedIn(block) : KeyOf(block[j]) = k => j <= i])]

\* The blocks that hold the lines of a block in another order.
Reorderings(block) ==
    {[i \in 1..Len(block) |-> block[f[i]]] :
        f \in {g \in [1..Len(block) -> 1..Len(block)] :
                  \A x, y \in 1..Len(block) : g[x] = g[y] => x = y}}

\* C26: the map parsed from a header block is the last-write-wins map of
\* its well-formed lines (lines without colon or with an invalid byte add
\* nothing and do not fail the parse), and a block whose well-formed lines
\* have pairwise distinct keys gives the same map in every order of its lines.
C26_LastWriteWins ==
    ppc = "done" =>
        /\ pout = LastWins(pin)
        /\ (\A i, j \in WellFormedIn(pin) : KeyOf(pin[i]) = KeyOf(pin[j]) => i = j) =>
               \A q \in Reorderings(pin) : HeaderLoop(<<>>, q) = pout

\* C26 witness: a block of three lines where a key occurs twice with
\* different values, around a line with an invalid byte: the later value is
\* kept and the invalid line adds nothing.
C26_Witness ==
    /\ ppc = "done"
    /\ pin = << <<"a", ":", "1">>, <<"a", BadByte, ":", "1">>, <<"a", ":", " ", "2", " ">> >>
    /\ pout = [k \in {<<"a">>} |-> <<"2">>]

\* A frame: the size in lower-case hexadecimal, CRLF, the payload, CRLF.
FrameOf(data) == ToHex(Len(data)) \o <<CR, LF>> \o data \o <<CR, LF>>

\* The frames of the successive blocks of size bytes of data; what is left
\* after the last full block is not framed.
RECURSIVE FullFrames(_, _)
FullFrames(data, size) ==
    IF Len(data) < size THEN <<>>
    ELSE FrameOf(SubSeq(data, 1, size)) \o FullFrames(SubSeq(data, size + 1, Len(data)), size)

\* The payloads of a sequence of frames, concatenated; <<-1>> when the bytes
\* are not a sequence of frames.
RECURSIVE PayloadsOf(_)
PayloadsOf(bytes) ==
    IF bytes = <<>> THEN <<>>
    ELSE LET cr == Find(bytes, CR)
             n  == IF cr > 1 THEN HexFold(Take(bytes, cr - 1), 0) ELSE -1
         IN  IF n < 1 \/ Len(bytes) < cr + 1 + n + 2 THEN <<-1>>
             ELSE IF bytes[cr + 1] # LF \/ bytes[cr + 2 + n] # CR \/ bytes[cr + 3 + n] # LF
             THEN <<-1>>
             ELSE SubSeq(bytes, cr + 2, cr + 1 + n) \o PayloadsOf(Drop(bytes, cr + 3 + n))

\* C27: fewer than chunk_size bytes are buffered after every call; the
\* payloads of the frames emitted so far, followed by what is buffered, are
\* the bytes written, in order; a write emits the frames of the full blocks
\* of chunk_size bytes of what was buffered plus what it is given, and
\* nothing else; a flush emits the non-empty remainder as one frame of fewer
\* than chunk_size bytes and empties the buffer, and emits nothing when the
\* buffer is empty.
C27_WriterFrames ==
    /\ [](kpc \in {"ready", "wrote", "flushed"} =>
             /\ Len(writer.buffer) < writer.chunk_size
             /\ PayloadsOf(wire) \o writer.buffer = payload)
    /\ [][kpc' = "wrote" =>
             /\ wire' = wire \o FullFrames(writer.buffer \o Drop(payload', Len(payload)),
                                            writer.chunk_size)
             /\ writer'.buffer =
                    Drop(writer.buffer \o Drop(payload', Len(payload)),
                         writer.chunk_size *
                           (Len(writer.buffer \o Drop(payload', Len(payload)))
                              \div writer.chunk_size))]_vars
    /\ [][kpc' = "flushed" =>
             /\ writer'.buffer = <<>>
             /\ wire' = wire \o (IF writer.buffer = <<>> THEN <<>> ELSE FrameOf(writer.buffer))
             /\ payload' = payload]_vars

\* C27 witness: three bytes went through a writer of chunk size 2 in two
\* writes and a flush: one full frame, then the remainder as a frame.
C27_Witness ==
    /\ kpc = "flushed"
    /\ writer.chunk_size = 2
    /\ payload = <<97, CR, LF>>
    /\ wire = FrameOf(<<97, CR>>) \o FrameOf(<<LF>>)

\* C28: a read that returns 0 bytes without error leaves the end-of-stream
\* flag set; a frame of size 0 sets it on the first read; once it is set it
\* stays set, and every later read returns 0 bytes without error and takes
\* nothing from the transport.
C28_EndOfStreamSticks ==
    /\ []((kpc \in {"read", "done", "past"} /\ kres = "ok") => reader.eof)
    /\ []((kpc \in {"read", "done", "past"} /\ frame.size = 0 /\ reader.stream # wire)
             => reader.eof)
    /\ [][(kpc \in {"read", "done", "past"} /\ reader.eof /\ kpc' \in {"done", "past"}) =>
             /\ reader'.eof
             /\ reader'.stream = reader.stream
             /\ kbody' = kbody
             /\ kres' = "ok"]_vars

\* C28 witness: the body of a frame was read to its end, the caller read
\* again, and bytes the peer sent after the terminating frame are still in
\* the transport.
C28_Witness ==
    /\ kpc = "past"
    /\ kres = "ok"
    /\ reader.eof
    /\ frame.size = 2
    /\ kbody = frame.data
    /\ Len(reader.stream) = MaxExtra

\* C29: when the bytes after a chunk's payload are not CR LF, the read that
\* reaches them fails with the decode error, and a later read hands out no
\* more data.
C29_OnlyCRLFEndsChunk ==
    (/\ kpc \in {"done", "past"}
     /\ frame.size >= 1
     /\ frame.size = Len(frame.data)
     /\ frame.ending # <<CR, LF>>)
        => IF kpc = "done" THEN kres = "Decode" ELSE kres # "data"

\* C30: a reader of a body that the headers say is chunked passes no byte
\* budget to the read loop, and a reader of a body that is not chunked passes
\* the Content-Length that parses; on the client and on the server.
C30_NoBudgetWhenChunked ==
    (ppc = "done" /\ pout.reads) =>
        pout.content_length = IF pout.chunked THEN <<>> ELSE ParsedLength(pin.headers)

\* The gzip member a conforming encoder makes of a body: the two magic
\* bytes, the method byte (8, deflate), the body's bytes in a stored block,
\* and the length that ends the trailer.
GzipOf(b) == <<31, 139, 8>> \o b \o <<Len(b)>>

\* Outbound compression is in effect for the message: the body goes through
\* the encoder, and a compression level was supplied.
CompressionInEffect(m) == Encodes(m) /\ m.compression_level # <<>>

\* C31: with outbound compression in effect and a non-empty body, writing
\* the body succeeds and hands the layer beneath the gzip encoding of the
\* body (in chunk frames when a chunk size is set), not the body itself and
\* not nothing.
C31_BodyGoesOutGzipped ==
    (ppc = "done" /\ CompressionInEffect(pin) /\ pin.body # <<>> /\ pin.body[1] # <<>>) =>
        /\ pout.res = "ok"
        /\ pout.wire # <<>>
        /\ pout.wire # pin.body[1]
        /\ pout.wire = IF pin.chunk_size # <<>>
                       THEN WriteAllUntilChunked(NewChunkedWriter(pin.chunk_size[1]),
                                                 GzipOf(pin.body[1])).out
                       ELSE GzipOf(pin.body[1])

\* C32: in every send() in progress the redirect history is no longer than
\* max_redirects, a followed redirect appends to it the one target just
\* visited, and a send() whose every response was a redirect carrying
\* Location ends with MaxRedirectsHit after max_redirects + 1 responses.
C32_RedirectBound ==
    /\ [](\A i \in 1..Len(stack) : Len(stack[i].redirects) <= stack[i].max_redirects)
    /\ [][(Deciding /\ cphase' = "send" /\ Len(stack') = Len(stack)) =>
             stack'[Len(stack)].redirects =
                 Append(Top.redirects, <<Top.url.https, Top.url.host, Top.url.resource>>)]_vars
    /\ []((cphase = "done" /\ nResp >= 1 /\ lead = nResp
             /\ result \in {"Ok", "MaxRedirectsHit", "NoLocationHeader"}) =>
            (result = "MaxRedirectsHit" /\ nResp = Sent.max_redirects + 1))

\* The call `call` was made among the first n calls on the builder.
CalledWithin(call, n) == \E i \in 1..n : pout[i].call = call

\* The values that calls of `call` were entitled to record: those of the
\* calls made after every call in `needs`.
Recorded(call, needs) ==
    {pout[i].arg : i \in {j \in 1..Len(pout) :
                            /\ pout[j].call = call
                            /\ \A c \in needs : CalledWithin(c, j - 1)}}

\* The last call of the builder.
LastCall == pout'[Len(pout')]

\* C33: on a ClientRequest, set_compression_level(l) records l only when
\* enable_compression and check_target_encodings were both called before it,
\* and set_chunk_size(n) records n only when check_target_encodings was
\* called before it; otherwise the call changes no field of the request, and
\* the enabling calls never change the level or the chunk size.
C33_BuilderOrdering ==
    /\ [](ppc = "build" =>
            /\ pin.compression_level # <<>> =>
                  pin.compression_level[1] \in
                      Recorded("set_compression_level",
                               {"enable_compression", "check_target_encodings"})
            /\ pin.chunk_size # <<>> =>
                  pin.chunk_size[1] \in Recorded("set_chunk_size", {"check_target_encodings"}))
    /\ [][(ppc = "build" /\ pout' # pout) =>
             /\ (LastCall.call = "set_compression_level"
                    /\ ~(CalledWithin("enable_compression", Len(pout))
                          /\ CalledWithin("check_target_encodings", Len(pout))))
                   => pin' = pin
             /\ (LastCall.call = "set_compression_level"
                    /\ CalledWithin("enable_compression", Len(pout))
                    /\ CalledWithin("check_target_encodings", Len(pout)))
                   => pin' = [pin EXCEPT !.compression_level = <<LastCall.arg>>]
             /\ (LastCall.call = "set_chunk_size"
                    /\ ~CalledWithin("check_target_encodings", Len(pout)))
                   => pin' = pin
             /\ (LastCall.call = "set_chunk_size"
                    /\ CalledWithin("check_target_encodings", Len(pout)))
                   => pin' = [pin EXCEPT !.chunk_size = <<LastCall.arg>>]
             /\ LastCall.call \in {"enable_compression", "check_target_encodings"}
                   => (/\ pin'.compression_level = pin.compression_level
                       /\ pin'.chunk_size = pin.chunk_size)]_vars

\* C33 witness: a level set too early stays unset after both enabling calls,
\* while a chunk size set after check_target_encodings is recorded.
C33_Witness ==
    /\ ppc = "build"
    /\ Len(pout) = 4
    /\ pout[1].call = "set_compression_level"
    /\ pout[2].call = "enable_compression"
    /\ pout[3].call = "check_target_encodings"
    /\ pout[4] = [call |-> "set_chunk_size", arg |-> 2]
    /\ pin.compression /\ pin.check_target_encodings
    /\ pin.compression_level = <<>>
    /\ pin.chunk_size = <<2>>

\* C34: every call of ChunkedWriter::write returns, for every chunk size
\* (0 included) and every buffer.
C34_WriteReturns == <>(kpc = "returned")

\* C35: when read_to_end_until was given the budget L and has returned Ok,
\* the body collected has exactly L bytes.
C35_BudgetMetOrError ==
    (bpc = "done" /\ content_length # <<>>) => Len(rbody) = content_length[1]

\* C36: the client reads the body of a response exactly when send() does
\* not treat its status code as a redirect: it is in the body loop only for a
\* code outside [300,308], and it goes from the head straight to the
\* redirect decision only for a code inside.
C36_BodySkippedForRedirects ==
    (cphase = "send" /\ Top.resp # <<>>) =>
        /\ Top.pc = "rbody" => ~IsRedirect(Top.resp[1].code)
        /\ (Top.pc = "decide" /\ Top.xfer[Len(Top.xfer)] = "rhead")
              => IsRedirect(Top.resp[1].code)

\* C37: when send() follows a redirect from a request that was https, the
\* request it re-issues is https too.
C37_RedirectKeepsHttps ==
    [][(Deciding /\ Top.url.https /\ cphase' = "send" /\ Len(stack') = Len(stack))
         => stack'[Len(stack)].url.https]_vars

C39_WindowPerConnection ==
    (ppc = "stopped" /\ pout = "TimedOut") => pin.now >= pin.started + pin.secs * 1000

\* C40: in every state of a ChunkedReader, the states left by a failed read
\* included, consumed is at most the length of the buffer, and no read
\* panics on the slice buffer[consumed..].
C40_ConsumedWithinBuffer ==
    /\ reader.consumed <= Len(reader.buffer)
    /\ kres # "panic"

\* C13: with a Content-Length budget, the body read_to_end_until collects
\* never holds more bytes than the budget.
C13_NeverBeyondBudget ==
    (bpc \in {"read", "done"} /\ content_length # <<>>) => Len(rbody) <= content_length[1]

HeadFirst(log) ==
    \A i \in 1..Len(log) :
        /\ log[i] = "wbody" => (i > 1 /\ log[i - 1] = "whead")
        /\ log[i] = "rbody" => (\E j \in 1..(i - 1) : log[j] = "rhead")

\* C15: on every connection the head is transferred before the body: the
\* client writes the request head before the request body and reads the
\* response head before the response body, in every send() in progress; the
\* server reads the request head before the request body and writes the head
\* of each response before its body.
C15_HeadBeforeBody ==
    /\ \A k \in 1..Len(stack) : HeadFirst(stack[k].xfer)
    /\ (cphase = "send" /\ Top.pc = "body") => (Top.xfer # <<>> /\ Top.xfer[1] = "whead")
    /\ (cphase = "send" /\ Top.pc = "rbody") => Top.xfer[Len(Top.xfer)] \in {"rhead", "rbody"}
    /\ HeadFirst(sxfer)
    /\ spc \in {"expect", "respond", "request", "dispatch"} => (sxfer # <<>> /\ sxfer[1] = "rhead")

\* C15 witness: the server read a head with an Expect header, wrote the
\* interim response, read the request body and wrote the head and the body
\* of the handler's response.
C15_Witness ==
    /\ spc = "accept"
    /\ sxfer = <<"rhead", "whead", "rbody", "whead", "wbody">>

\* A send() wrote head and body of its request and read head and body of
\* the response.
C15_ClientExchange ==
    /\ cphase = "send"
    /\ Top.pc = "decide"
    /\ Top.xfer = <<"whead", "wbody", "rhead", "rbody">>

\* The last bytes of a sequence.
EndsWith(s, suffix) ==
    /\ Len(s) >= Len(suffix)
    /\ Drop(s, Len(s) - Len(suffix)) = suffix

\* C12: the bytes written for a body sent with chunked framing end with the
\* zero-size chunk frame, for every body length and every chunk size.
C12_ZeroChunkLast ==
    (frame = NoFrame /\ kpc \in {"feed", "read", "done"}) => EndsWith(wire, LastChunk)

\* C10: reading to the end of what the chunked writer emitted for a payload
\* (write, then flush) gives the payload back, without error.
C10_RoundTrip ==
    kpc = "done" => (kres = "ok" /\ kbody = payload)

====
